---------------------------- MODULE Spec2Model ----------------------------
(***************************************************************************)
(* Agent orchestration layer of the AI Canvas demo                         *)
(* (src/js/components/sidebar.js: AgentOrchestrator, SmartRoutingEngine,   *)
(* AICanvas.checkAgentHealth).                                             *)
(*                                                                         *)
(* Strings the code inspects character by character (the query message)    *)
(* are sequences of one-character strings; agent identifiers are atoms     *)
(* that are only compared, sorted and joined.  Time is Date.now() in       *)
(* milliseconds.  Confidences are integers in units of 1/1200, so that the *)
(* mean of up to four of them is exact.                                    *)
(*                                                                         *)
(* One action is one task of the browser's event loop: the code run by an  *)
(* event or a timer together with the promise continuations it releases.   *)
(***************************************************************************)
EXTENDS Integers, Sequences, FiniteSets, Bags, TLC

(***************************************************************************)
(* Bounds of the model.                                                    *)
(***************************************************************************)
MaxQueries == 2
MaxTicks == 3

(***************************************************************************)
(* String helpers: String.prototype.toLowerCase, trim, includes.           *)
(***************************************************************************)
UpperToLower ==
  ("A" :> "a") @@ ("B" :> "b") @@ ("C" :> "c") @@ ("D" :> "d") @@ ("E" :> "e") @@
  ("F" :> "f") @@ ("G" :> "g") @@ ("H" :> "h") @@ ("I" :> "i") @@ ("J" :> "j") @@
  ("K" :> "k") @@ ("L" :> "l") @@ ("M" :> "m") @@ ("N" :> "n") @@ ("O" :> "o") @@
  ("P" :> "p") @@ ("Q" :> "q") @@ ("R" :> "r") @@ ("S" :> "s") @@ ("T" :> "t") @@
  ("U" :> "u") @@ ("V" :> "v") @@ ("W" :> "w") @@ ("X" :> "x") @@ ("Y" :> "y") @@
  ("Z" :> "z")

toLowerCase(s) ==
  [i \in 1..Len(s) |-> IF s[i] \in DOMAIN UpperToLower THEN UpperToLower[s[i]] ELSE s[i]]

trim(s) ==
  LET keep == {i \in 1..Len(s) : s[i] # " "}
  IN  IF keep = {} THEN <<>>
      ELSE SubSeq(s, CHOOSE i \in keep : \A j \in keep : i <= j,
                     CHOOSE i \in keep : \A j \in keep : i >= j)

includes(s, k) ==
  \E i \in 0..(Len(s) - Len(k)) : SubSeq(s, i + 1, i + Len(k)) = k

(***************************************************************************)
(* SmartRoutingEngine: the keyword table and the capability table, in the  *)
(* insertion order of the two Maps.                                        *)
(***************************************************************************)
CategoryOrder == <<"hr", "policy", "finance", "knowledge">>

patterns ==
  [
    hr |-> <<
        <<"v","a","c","a","t","i","o","n">>,
        <<"p","t","o">>,
        <<"t","i","m","e"," ","o","f","f">>,
        <<"b","e","n","e","f","i","t","s">>,
        <<"i","n","s","u","r","a","n","c","e">>,
        <<"4","0","1","k">>,
        <<"p","a","y","r","o","l","l">>,
        <<"s","a","l","a","r","y">>,
        <<"l","e","a","v","e">>,
        <<"h","o","l","i","d","a","y">>,
        <<"s","i","c","k"," ","d","a","y">> >>,
    policy |-> <<
        <<"p","o","l","i","c","y">>,
        <<"p","r","o","c","e","d","u","r","e">>,
        <<"g","u","i","d","e","l","i","n","e">>,
        <<"r","u","l","e">>,
        <<"c","o","m","p","l","i","a","n","c","e">>,
        <<"s","e","c","u","r","i","t","y">>,
        <<"e","x","p","e","n","s","e">>,
        <<"r","e","i","m","b","u","r","s","e","m","e","n","t">>,
        <<"t","r","a","i","n","i","n","g">> >>,
    finance |-> <<
        <<"b","u","d","g","e","t">>,
        <<"c","o","s","t">>,
        <<"e","x","p","e","n","s","e">>,
        <<"f","i","n","a","n","c","i","a","l">>,
        <<"i","n","v","o","i","c","e">>,
        <<"p","a","y","m","e","n","t">>,
        <<"a","c","c","o","u","n","t","i","n","g">>,
        <<"r","e","v","e","n","u","e">>,
        <<"f","o","r","e","c","a","s","t">> >>,
    knowledge |-> <<
        <<"h","o","w"," ","t","o">>,
        <<"w","h","a","t"," ","i","s">>,
        <<"w","h","e","r","e"," ","c","a","n"," ","i">>,
        <<"d","o","c","u","m","e","n","t","a","t","i","o","n">>,
        <<"m","a","n","u","a","l">>,
        <<"g","u","i","d","e">>,
        <<"h","e","l","p">>,
        <<"i","n","f","o","r","m","a","t","i","o","n">> >>
  ]

CapabilityOrder == <<"workday", "policy", "healthcare", "finance">>

agentCapabilities ==
  [
    workday    |-> <<"hr", "vacation", "payroll", "benefits">>,
    policy     |-> <<"policy", "compliance", "procedures">>,
    healthcare |-> <<"benefits", "insurance", "wellness">>,
    finance    |-> <<"budget", "expenses", "financial">>
  ]

Range(s) == {s[i] : i \in 1..Len(s)}

\* keywords.filter(keyword => lowerMessage.includes(keyword)).length
matchCount(lowerMessage, category) ==
  Cardinality({i \in 1..Len(patterns[category]) : includes(lowerMessage, patterns[category][i])})

\* scores.set(agentId, (scores.get(agentId) || 0) + matchCount); a Map keeps
\* the position of a key that is set again and appends a new key.
scoresSet(scores, agentId, n) ==
  IF \E i \in 1..Len(scores) : scores[i][1] = agentId
  THEN [i \in 1..Len(scores) |->
          IF scores[i][1] = agentId THEN <<agentId, scores[i][2] + n>> ELSE scores[i]]
  ELSE Append(scores, <<agentId, n>>)

\* The inner agentCapabilities.forEach, from the a-th agent on.
RECURSIVE scoreAgents(_, _, _, _, _)
scoreAgents(scores, category, n, excludeAgents, a) ==
  IF a > Len(CapabilityOrder) THEN scores
  ELSE LET agentId == CapabilityOrder[a]
           next == IF category \in Range(agentCapabilities[agentId]) /\ agentId \notin excludeAgents
                   THEN scoresSet(scores, agentId, n)
                   ELSE scores
       IN  scoreAgents(next, category, n, excludeAgents, a + 1)

\* The outer patterns.forEach, from the c-th category on.
RECURSIVE scoreCategories(_, _, _, _)
scoreCategories(scores, lowerMessage, excludeAgents, c) ==
  IF c > Len(CategoryOrder) THEN scores
  ELSE LET category == CategoryOrder[c]
           n == matchCount(lowerMessage, category)
           next == IF n > 0 THEN scoreAgents(scores, category, n, excludeAgents, 1) ELSE scores
       IN  scoreCategories(next, lowerMessage, excludeAgents, c + 1)

\* insertByScore with the comparator reversed (a[1] - b[1]): ascending.
RECURSIVE insertByScoreAscending(_, _)
insertByScoreAscending(sorted, e) ==
  IF sorted = <<>> THEN <<e>>
  ELSE IF Head(sorted)[2] <= e[2]
       THEN <<Head(sorted)>> \o insertByScoreAscending(Tail(sorted), e)
       ELSE <<e>> \o sorted

\* Array.prototype.sort((a, b) => b[1] - a[1]): stable, descending by score.
RECURSIVE insertByScore(_, _)
insertByScore(sorted, e) ==
  IF sorted = <<>> THEN <<e>>
  ELSE IF Head(sorted)[2] >= e[2]
       THEN <<Head(sorted)>> \o insertByScore(Tail(sorted), e)
       ELSE <<e>> \o sorted

RECURSIVE sortByScore(_)
sortByScore(entries) ==
  IF entries = <<>> THEN <<>>
  ELSE insertByScore(sortByScore(SubSeq(entries, 1, Len(entries) - 1)), entries[Len(entries)])

computeScores(message, excludeAgents) ==
  scoreCategories(<<>>, toLowerCase(message), excludeAgents, 1)

\* recommendAgents whose default pair is returned without the exclusion filter.
recommendAgentsUnfilteredDefault(message, excludeAgents) ==
  LET ranked == sortByScore(computeScores(message, excludeAgents))
      sortedAgents == SubSeq([i \in 1..Len(ranked) |-> ranked[i][1]], 1,
                             IF Len(ranked) < 3 THEN Len(ranked) ELSE 3)
  IN  IF Len(sortedAgents) = 0 THEN <<"workday", "policy">> ELSE sortedAgents

recommendAgents(message, excludeAgents) ==
  LET scores == computeScores(message, excludeAgents)
      ranked == sortByScore(scores)
      sortedAgents == SubSeq([i \in 1..Len(ranked) |-> ranked[i][1]], 1,
                             IF Len(ranked) < 3 THEN Len(ranked) ELSE 3)
      notExcluded(id) == id \notin excludeAgents
  IN  IF Len(sortedAgents) = 0
      THEN SelectSeq(<<"workday", "policy">>, notExcluded)
      ELSE sortedAgents

findAlternativeAgents(message, excludeAgents) == recommendAgents(message, excludeAgents)

(***************************************************************************)
(* AgentOrchestrator: agents, simulated agent responses, synthesis.        *)
(***************************************************************************)
\* The agents handed to AgentOrchestrator.initialize (AICanvas.agents): the
\* two agents of the embedded list, registered as loadAgentData registers an
\* agent (status 'unknown', health checks running).
Registered == {"workday", "policy"}

agentType == [workday |-> "hr", policy |-> "knowledge"]

agentName == [workday |-> "Workday Assistant", policy |-> "Policy Bot"]

\* Statuses written by AICanvas.loadAgentData and AICanvas.checkAgentHealth.
Statuses == {"unknown", "online", "error", "offline"}

cacheExpiry == 300000

\* Step of the clock (Date.now()), half the cache expiry.
TickMs == cacheExpiry \div 2

\* Array.prototype.sort() on agent identifiers: UTF-16 code unit order.
AgentOrder == <<"finance", "guidewire", "healthcare", "policy", "workday">>

rank(id) == CHOOSE i \in 1..Len(AgentOrder) : AgentOrder[i] = id

RECURSIVE insertSorted(_, _)
insertSorted(sorted, id) ==
  IF sorted = <<>> THEN <<id>>
  ELSE IF rank(Head(sorted)) <= rank(id)
       THEN <<Head(sorted)>> \o insertSorted(Tail(sorted), id)
       ELSE <<id>> \o sorted

RECURSIVE sort(_)
sort(ids) ==
  IF ids = <<>> THEN <<>>
  ELSE insertSorted(sort(SubSeq(ids, 1, Len(ids) - 1)), ids[Len(ids)])

RECURSIVE join(_, _)
join(strs, sep) ==
  IF strs = <<>> THEN ""
  ELSE IF Len(strs) = 1 THEN strs[1]
  ELSE strs[1] \o sep \o join(Tail(strs), sep)

Src(name, description) == [name |-> name, description |-> description]

simulateHRResponse(message, agentId) ==
  LET lowerMessage == toLowerCase(message)
      has(k) == includes(lowerMessage, k)
  IN  IF has(<<"v","a","c","a","t","i","o","n">>) \/ has(<<"p","t","o">>)
         \/ has(<<"t","i","m","e"," ","o","f","f">>)
      THEN [content |-> <<"hr.vacation">>,
            sources |-> <<Src("Workday", "Employee vacation balance from Workday system"),
                          Src("PTO Policy", "Company paid time off policy document")>>,
            confidence |-> 95 * 12]
      ELSE IF has(<<"b","e","n","e","f","i","t">>) \/ has(<<"i","n","s","u","r","a","n","c","e">>)
              \/ has(<<"4","0","1","k">>)
      THEN [content |-> <<"hr.benefits">>,
            sources |-> <<Src("Benefits Portal", "Employee benefits information system"),
                          Src("HR Guidelines", "Benefits enrollment guidelines")>>,
            confidence |-> 92 * 12]
      ELSE IF has(<<"r","e","m","o","t","e">>) \/ has(<<"p","o","l","i","c","y">>)
              \/ has(<<"w","o","r","k"," ","f","r","o","m"," ","h","o","m","e">>)
      THEN [content |-> <<"hr.policy">>,
            sources |-> <<Src("Employee Handbook", "Remote work policy section 4.2"),
                          Src("IT Policy", "Equipment and security guidelines")>>,
            confidence |-> 88 * 12]
      ELSE [content |-> <<"hr.help">>,
            sources |-> <<Src(agentName[agentId], "HR assistance system")>>,
            confidence |-> 70 * 12]

simulateKnowledgeResponse(message, agentId) ==
  LET lowerMessage == toLowerCase(message)
      has(k) == includes(lowerMessage, k)
  IN  IF has(<<"e","x","p","e","n","s","e">>) \/ has(<<"r","e","i","m","b","u","r","s","e">>)
         \/ has(<<"r","e","c","e","i","p","t">>)
      THEN [content |-> <<"knowledge.expense">>,
            sources |-> <<Src("Finance Policy 3.1", "Employee expense reimbursement guidelines"),
                          Src("Concur Guide", "Expense submission process documentation")>>,
            confidence |-> 94 * 12]
      ELSE IF has(<<"s","e","c","u","r","i","t","y">>) \/ has(<<"p","a","s","s","w","o","r","d">>)
              \/ has(<<"v","p","n">>)
      THEN [content |-> <<"knowledge.security">>,
            sources |-> <<Src("IT Security Policy", "Corporate information security standards"),
                          Src("Compliance Manual", "Security compliance requirements")>>,
            confidence |-> 91 * 12]
      ELSE IF has(<<"c","o","m","p","l","i","a","n","c","e">>) \/ has(<<"t","r","a","i","n","i","n","g">>)
              \/ has(<<"e","t","h","i","c","s">>)
      THEN [content |-> <<"knowledge.compliance">>,
            sources |-> <<Src("Compliance Framework", "Annual training requirements"),
                          Src("Training Records", "Employee completion tracking system")>>,
            confidence |-> 89 * 12]
      ELSE [content |-> <<"knowledge.help">>,
            sources |-> <<Src(agentName[agentId], "Knowledge base system")>>,
            confidence |-> 70 * 12]

simulateFinanceResponse(message, agentId) ==
  [content |-> <<"finance.budget">>,
   sources |-> <<Src("SAP Financial System", "Department budget and expense tracking"),
                 Src("Q2 Forecast", "Budget projection and variance analysis")>>,
   confidence |-> 87 * 12]

simulateGenericResponse(message, agentId) ==
  [content |-> <<"generic.processed">>,
   sources |-> <<Src(agentName[agentId], "General purpose AI assistant")>>,
   confidence |-> 60 * 12]

\* The value callAgent resolves with once its timer has fired.
callAgent(agentId, message) ==
  CASE agentType[agentId] = "hr" -> simulateHRResponse(message, agentId)
    [] agentType[agentId] = "knowledge" -> simulateKnowledgeResponse(message, agentId)
    [] agentType[agentId] = "finance" -> simulateFinanceResponse(message, agentId)
    [] OTHER -> simulateGenericResponse(message, agentId)

\* this.agents.get(result.agentId)?.name || result.agentId
displayName(agentId) ==
  IF agentId \in DOMAIN agentName THEN agentName[agentId] ELSE agentId

\* A de-duplication that keeps the last source of each name.
uniqueSourcesLastWins(allSources) ==
  LET last(i) == \A j \in (i + 1)..Len(allSources) : allSources[j].name # allSources[i].name
      RECURSIVE f(_)
      f(i) == IF i > Len(allSources) THEN <<>>
              ELSE IF last(i) THEN <<allSources[i]>> \o f(i + 1) ELSE f(i + 1)
  IN  f(1)

\* uniqueSources: keep a source when it is the first one with its name.
uniqueSources(allSources) ==
  LET first(i) == \A j \in 1..(i - 1) : allSources[j].name # allSources[i].name
      RECURSIVE f(_)
      f(i) == IF i > Len(allSources) THEN <<>>
              ELSE IF first(i) THEN <<allSources[i]>> \o f(i + 1) ELSE f(i + 1)
  IN  f(1)

RECURSIVE concatAll(_)
concatAll(seqs) ==
  IF seqs = <<>> THEN <<>> ELSE Head(seqs) \o concatAll(Tail(seqs))

RECURSIVE sumConfidence(_)
sumConfidence(results) ==
  IF results = <<>> THEN 0 ELSE Head(results).confidence + sumConfidence(Tail(results))

\* results: the successful results, each with its agentId, in plan order.
synthesizeResponses(results) ==
  IF Len(results) = 1
  THEN [content |-> results[1].content,
        sources |-> results[1].sources,
        agents |-> <<results[1].agentId>>,
        confidence |-> results[1].confidence,
        synthesized |-> FALSE]
  ELSE [content |-> concatAll([i \in 1..Len(results) |->
                       <<"**" \o displayName(results[i].agentId) \o ":** ">> \o results[i].content]),
        sources |-> uniqueSources(concatAll([i \in 1..Len(results) |-> results[i].sources])),
        agents |-> [i \in 1..Len(results) |-> results[i].agentId],
        confidence |-> sumConfidence(results) \div Len(results),
        synthesized |-> TRUE]

\* The response object built by deliverErrorResponse.
errorResponse(message) ==
  [content |-> <<"I encountered an error processing your request: ", message>>,
   sources |-> <<>>,
   agents |-> <<>>,
   error |-> TRUE]

isError(response) == "error" \in DOMAIN response /\ response.error

\* shouldCacheResponse with >= in place of >.
shouldCacheResponseAtLeast(response) ==
  ~isError(response) /\ response.confidence >= 70 * 12

shouldCacheResponse(response) ==
  ~isError(response) /\ response.confidence > 70 * 12

RECURSIVE charsToString(_)
charsToString(s) == IF s = <<>> THEN "" ELSE Head(s) \o charsToString(Tail(s))

\* The key built by generateCacheKey; the agent list is the sorted one.
cacheKeyOf(message, sortedAgents) ==
  charsToString(trim(toLowerCase(message))) \o "|" \o join(sortedAgents, ",")

\* A key built from the agent list in the order the query gives it.
generateCacheKeyUnsorted(queryData) ==
  cacheKeyOf(queryData.message, queryData.agents)

generateCacheKey(queryData) ==
  cacheKeyOf(queryData.message, sort(queryData.agents))

validateQuery(queryData) ==
  /\ queryData.hasMessage
  /\ queryData.hasWidgetId
  /\ Len(trim(queryData.message)) > 0

(***************************************************************************)
(* State.                                                                  *)
(***************************************************************************)
VARIABLES
  agentStatus,     \* agents.get(id).status, for the registered agents
  metrics,         \* performanceMetrics: totalQueries and successfulQueries
  responseCache,   \* responseCache: key -> [response, timestamp, queryData]
  activeQueries,   \* activeQueries: queryId -> the registered copy of the query
  queryHistory,    \* queryHistory
  now,             \* Date.now()
  runs,            \* the processQuery runs: where each one is suspended
  submitted,       \* number of processQuery runs started so far
  last,            \* what the latest task did (observation only)
  rec,             \* the latest recommendAgents call of the routing driver
  syn,             \* the latest synthesizeResponses call of the synthesis driver
  keyed,           \* the latest pair of generateCacheKey calls of the key driver
  widgets,         \* WidgetManager.widgets: the widgets in insertion order
  widgetCounter,   \* WidgetManager.widgetCounter
  removalTimers,   \* the removals closeWidget has scheduled (setTimeout, 200 ms), by id
  destroyedEvents, \* the 'widget:destroyed' events dispatched so far, by id
  closeError,      \* whether the latest closeWidget call threw (observation only)
  currentPreset,   \* AICanvas.currentPreset
  initialized,     \* AICanvas.initialized
  exportFile,      \* the files exportWorkspace has offered for download
  importRec,       \* the latest importWorkspace call (observation only)
  closedIds,       \* ids of the widgets removed so far (observation only)
  notifications,   \* NotificationManager.notifications, in insertion order
  notificationCounter, \* NotificationManager.notificationCounter
  dismissTimers,   \* ids whose removal dismiss has scheduled (setTimeout, 300 ms)
  calls,           \* the processQuery calls requested by chat widgets and listeners
  chatMessages,    \* the messages added to the chat transcripts, in order
  appAgents,       \* AICanvasApp.agents: status and enabled flag of each agent
  activePreset,    \* AICanvasApp.activePreset
  chips,           \* the agent chips of the app's chat widget, in document order
  sent             \* what the latest task sent from the chat widget (observation only)

vars == <<agentStatus, metrics, responseCache, activeQueries, queryHistory, now,
          runs, submitted, last, rec, syn, keyed, widgets, widgetCounter, removalTimers,
          currentPreset, initialized, exportFile, importRec, closedIds,
          destroyedEvents, closeError,
          notifications, notificationCounter, dismissTimers, calls, chatMessages,
          appAgents, activePreset, chips, sent>>

\* The state of NotificationManager.
notifying == <<notifications, notificationCounter, dismissTimers>>

\* The chat transcripts, and the processQuery calls made on their behalf.
chatting == <<calls, chatMessages>>

\* The state of the components beside the orchestrator and the workspace.
components == <<notifying, chatting, appAgents, activePreset, chips, sent>>

\* The state of WidgetManager and of the workspace operations of AICanvas.
workspace == <<widgets, widgetCounter, removalTimers, currentPreset, initialized,
               exportFile, importRec, closedIds, destroyedEvents, closeError>>

\* The state of AgentOrchestrator and of the processQuery runs.
orchestration == <<agentStatus, metrics, responseCache, activeQueries, queryHistory, now,
                   runs, submitted, last>>

\* The state the orchestrator's own actions leave alone, the routing driver's apart.
driven == <<syn, keyed, workspace, components>>

QueryIds == 1..MaxQueries

MsgVacation == <<"V","a","c","a","t","i","o","n">>
MsgHrHeavy == <<"v","a","c","a","t","i","o","n"," ","p","t","o"," ","p","o","l","i","c","y">>
MsgHello == <<" ","h","e","l","l","o">>
MsgBlank == <<" ">>

Query(message, agents) ==
  [hasMessage |-> TRUE, message |-> message, hasWidgetId |-> TRUE, agents |-> agents]

\* The queries submitted to processQuery.  An absent or empty agent list is
\* <<>>: the code treats the two alike everywhere.
QueryPool ==
  { Query(MsgVacation, <<>>),
    Query(MsgHrHeavy, <<>>),
    Query(MsgHello, <<>>),
    Query(MsgVacation, <<"workday">>),
    Query(MsgHello, <<"workday", "policy">>),
    Query(MsgBlank, <<"workday">>),
    [Query(MsgVacation, <<"workday">>) EXCEPT !.hasWidgetId = FALSE],
    [Query(<<>>, <<"workday">>) EXCEPT !.hasMessage = FALSE] }

NoQuery == [hasMessage |-> FALSE, message |-> <<>>, hasWidgetId |-> FALSE, agents |-> <<>>]

widgetIdOf(queryData) ==
  IF ~queryData.hasWidgetId THEN "undefined"
  ELSE IF "widgetId" \in DOMAIN queryData THEN queryData.widgetId
  ELSE "w1"

IdleRun ==
  [pc |-> "idle", queryData |-> NoQuery, plan |-> <<>>, multi |-> FALSE,
   pending |-> {}, results |-> {}, errors |-> {}]

\* No call of executeSingleQuery.
NoCalls == [a \in {} |-> 0]

Quiet ==
  [kind |-> "none", q |-> 0, queryData |-> NoQuery, route |-> "none", plan |-> <<>>,
   executed |-> FALSE, called |-> {}, errors |-> {}, results |-> {}, thrown |-> "",
   delivered |-> <<>>, synthesized |-> FALSE, attempts |-> NoCalls]

NoRec == [message |-> <<>>, excludeAgents |-> {}, result |-> <<>>, called |-> FALSE]

NoSyn == [results |-> <<>>, response |-> <<>>, called |-> FALSE]

NoImport == [done |-> FALSE, file |-> <<>>, created |-> <<>>, before |-> {}]

\* No sendChatMessage in the task.
NoSend == [called |-> FALSE, message |-> <<>>, agents |-> <<>>, type |-> "none"]

NoKeyed == [first |-> NoQuery, second |-> NoQuery, keys |-> <<>>, called |-> FALSE]

Init ==
  /\ agentStatus = [a \in Registered |-> "unknown"]
  /\ metrics = [a \in Registered |-> [totalQueries |-> 0, successfulQueries |-> 0]]
  /\ responseCache = <<>>
  /\ activeQueries = <<>>
  /\ queryHistory = <<>>
  /\ now = 0
  /\ runs = [q \in QueryIds |-> IdleRun]
  /\ submitted = 0
  /\ last = Quiet
  /\ rec = NoRec
  /\ syn = NoSyn
  /\ keyed = NoKeyed
  /\ widgets = <<>>
  /\ widgetCounter = 0
  /\ removalTimers = EmptyBag
  /\ destroyedEvents = EmptyBag
  /\ closeError = FALSE
  /\ currentPreset = "executive"
  /\ initialized = FALSE
  /\ exportFile = <<>>
  /\ importRec = NoImport
  /\ closedIds = {}
  /\ notifications = <<>>
  /\ notificationCounter = 0
  /\ dismissTimers = {}
  /\ calls = <<>>
  /\ chatMessages = <<>>
  \* AICanvasApp: the constructor's agents, and the chips createChatContent
  \* gives the default chat widget (the enabled agents that are not offline)
  /\ appAgents = [workday |-> [status |-> "online", enabled |-> TRUE],
                  policy |-> [status |-> "online", enabled |-> TRUE],
                  healthcare |-> [status |-> "warning", enabled |-> FALSE],
                  finance |-> [status |-> "online", enabled |-> FALSE],
                  guidewire |-> [status |-> "offline", enabled |-> FALSE]]
  /\ activePreset = "all-agents"
  /\ chips = <<[agent |-> "workday", active |-> TRUE, disabled |-> FALSE],
               [agent |-> "policy", active |-> TRUE, disabled |-> FALSE]>>
  /\ sent = NoSend

(***************************************************************************)
(* Bookkeeping operators of AgentOrchestrator.                             *)
(***************************************************************************)
updateAgentMetrics(m, agentId, success) ==
  IF agentId \notin DOMAIN m THEN m
  ELSE [m EXCEPT ![agentId] =
          [totalQueries |-> @.totalQueries + 1,
           successfulQueries |-> @.successfulQueries + (IF success THEN 1 ELSE 0)]]

RECURSIVE updatePerformanceMetrics(_, _, _)
updatePerformanceMetrics(m, agentIds, success) ==
  IF agentIds = <<>> THEN m
  ELSE updatePerformanceMetrics(updateAgentMetrics(m, Head(agentIds), success),
                                Tail(agentIds), success)

\* A Map.delete that leaves the entry in place.
removeKeyKeeps(f, k) == f

removeKey(f, k) == [x \in DOMAIN f \ {k} |-> f[x]]

putKey(f, k, v) == [x \in DOMAIN f \cup {k} |-> IF x = k THEN v ELSE f[x]]

\* isExpired with the comparison turned around.
isExpiredInverted(entry, t) == t - entry.timestamp < cacheExpiry

isExpired(entry, t) == t - entry.timestamp > cacheExpiry

\* A lookup that deletes the entry it finds, expired or not.
cacheAfterLookupEvicts(cache, key, t) ==
  IF key \in DOMAIN cache THEN [x \in DOMAIN cache \ {key} |-> cache[x]] ELSE cache

\* The cache after a lookup of key at time t (an expired entry is deleted).
cacheAfterLookup(cache, key, t) ==
  IF key \in DOMAIN cache /\ isExpired(cache[key], t) THEN removeKey(cache, key) ELSE cache

\* Whether getCachedResponse returns a response for key at time t.
isCacheHit(cache, key, t) ==
  key \in DOMAIN cache /\ ~isExpired(cache[key], t)

cleanExpiredCache(cache, t) ==
  [k \in {x \in DOMAIN cache : ~isExpired(cache[x], t)} |-> cache[k]]

cacheResponse(cache, queryData, response, t) ==
  cleanExpiredCache(
    putKey(cache, generateCacheKey(queryData),
           [response |-> response, timestamp |-> t, queryData |-> queryData]),
    t)

logEntry(queryData, response) ==
  [message |-> queryData.message,
   agents |-> queryData.agents,
   responseAgents |-> IF "agents" \in DOMAIN response THEN response.agents ELSE <<>>,
   success |-> ~isError(response),
   confidence |-> IF "confidence" \in DOMAIN response THEN response.confidence ELSE 0,
   synthesized |-> IF "synthesized" \in DOMAIN response THEN response.synthesized ELSE FALSE,
   cached |-> FALSE]

logQuery(history, queryData, response) ==
  LET h == Append(history, logEntry(queryData, response))
  IN  IF Len(h) > 1000 THEN Tail(h) ELSE h

Event(widgetId, response) == [widgetId |-> widgetId, response |-> response]

\* queryData.agents.filter(id => agents.get(id) && agents.get(id).status === 'online')
availableAgents(agents, status) ==
  LET online(id) == id \in Registered /\ status[id] = "online"
  IN  SelectSeq(agents, online)

\* createRoutingPlan without the check for an empty list of available agents.
createRoutingPlanNoThrow(queryData, status) ==
  IF Len(queryData.agents) = 0
  THEN [throws |-> FALSE, strategy |-> "smart",
        agents |-> recommendAgents(queryData.message, {}), parallel |-> TRUE]
  ELSE LET available == availableAgents(queryData.agents, status)
       IN  [throws |-> FALSE, strategy |-> "specified",
            agents |-> available, parallel |-> Len(available) > 1]

\* createRoutingPlan: the plan, or throws = TRUE for the availability error.
createRoutingPlan(queryData, status) ==
  IF Len(queryData.agents) = 0
  THEN [throws |-> FALSE, strategy |-> "smart",
        agents |-> recommendAgents(queryData.message, {}), parallel |-> TRUE]
  ELSE LET available == availableAgents(queryData.agents, status)
       IN  [throws |-> Len(available) = 0, strategy |-> "specified",
            agents |-> available, parallel |-> Len(available) > 1]

\* executeQueryPlan: the agents executeSingleQuery is called for.
planTargets(plan) ==
  IF plan.parallel /\ Len(plan.agents) > 1 THEN Range(plan.agents)
  ELSE IF Len(plan.agents) > 0 THEN {plan.agents[1]}
  ELSE {"undefined"}

\* executeSingleQuery without the status check.
rejectedAgentsUnregistered(targets, status) ==
  {a \in targets : a \notin Registered}

\* The agents whose executeSingleQuery throws before it calls the agent.
rejectedAgents(targets, status) ==
  {a \in targets : a \notin Registered \/ status[a] # "online"}

rejectionOf(a) ==
  IF a \notin Registered THEN "Agent " \o a \o " not found"
  ELSE "Agent " \o a \o " is not available"

\* config.retryAttempts
retryAttempts == 3

\* A dispatch that calls executeSingleQuery again after a failed call, up to
\* retryAttempts times.
executeSingleQueryCallsRetrying(targets, rejected) ==
  [a \in targets |-> IF a \in rejected THEN retryAttempts ELSE 1]

\* executeQueryPlan / executeParallelQueries: how often executeSingleQuery is
\* called for each agent of the plan, rejected being the agents whose call fails.
executeSingleQueryCalls(targets, rejected) == [a \in targets |-> 1]

\* A fan-in that resolves while one call is still pending.
allButOneSettled(pending) == Cardinality(pending) <= 1

\* Promise.allSettled(promises) resolves: no call of the plan is pending.
allSettled(pending) == pending = {}

(***************************************************************************)
(* processQuery, from its call to its first wait on an agent timer (or to  *)
(* its end when it does not get that far).                                 *)
(***************************************************************************)
\* A catch block that lets the error go on to the caller instead.
deliverErrorResponseRethrown(widgetId, err) == <<>>

\* deliverErrorResponse: the 'agent:response-ready' events it dispatches.
deliverErrorResponse(widgetId, err) == <<Event(widgetId, errorResponse(err))>>

\* The catch and finally blocks of processQuery, for the error message err.
\* qd is the query as generateCacheKey has left it.
FailQuery(q, qd, route, plan, executed, errors, err, attempts) ==
  /\ metrics' = updatePerformanceMetrics(metrics, qd.agents, FALSE)
  /\ runs' = [runs EXCEPT ![q] = IdleRun]
  /\ last' = [kind |-> "submit", q |-> q, queryData |-> qd, route |-> route, plan |-> plan,
              executed |-> executed, called |-> {}, errors |-> errors, results |-> {},
              thrown |-> err,
              delivered |-> deliverErrorResponse(widgetIdOf(qd), err),
              synthesized |-> FALSE, attempts |-> attempts]
  /\ UNCHANGED <<activeQueries, queryHistory>>

processQuery(q, queryData) ==
  /\ submitted < MaxQueries
  /\ runs[q].pc = "idle"
  /\ \A p \in 1..(q - 1) : runs[p].pc # "idle"
  /\ submitted' = submitted + 1
  /\ UNCHANGED <<agentStatus, now, rec, driven>>
  /\ IF ~validateQuery(queryData)
     THEN /\ FailQuery(q, queryData, "invalid", <<>>, FALSE, {}, "Invalid query format", NoCalls)
          /\ UNCHANGED responseCache
     ELSE
       LET \* generateCacheKey sorts queryData.agents in place
           qd == [queryData EXCEPT !.agents = sort(queryData.agents)]
           key == generateCacheKey(queryData)
       IN
       /\ responseCache' = cacheAfterLookup(responseCache, key, now)
       /\ IF isCacheHit(responseCache, key, now)
          THEN /\ last' = [kind |-> "submit", q |-> q, queryData |-> qd, route |-> "hit",
                           plan |-> <<>>, executed |-> FALSE, called |-> {}, errors |-> {},
                           results |-> {}, thrown |-> "",
                           delivered |-> <<Event(widgetIdOf(qd), responseCache[key].response)>>,
                           synthesized |-> FALSE, attempts |-> NoCalls]
               /\ runs' = [runs EXCEPT ![q] = IdleRun]
               /\ UNCHANGED <<metrics, activeQueries, queryHistory>>
          ELSE
            LET plan == createRoutingPlan(qd, agentStatus)
                multi == plan.parallel /\ Len(plan.agents) > 1
                targets == planTargets(plan)
                rejected == rejectedAgents(targets, agentStatus)
                started == targets \ rejected
                attempts == executeSingleQueryCalls(targets, rejected)
            IN
            IF plan.throws
            THEN FailQuery(q, qd, plan.strategy, plan.agents, FALSE, {},
                           "No available agents for this query", NoCalls)
            ELSE IF multi /\ allSettled(started)
            THEN FailQuery(q, qd, plan.strategy, plan.agents, TRUE, rejected,
                           "All agents failed to respond", attempts)
            ELSE IF ~multi /\ rejected # {}
            THEN FailQuery(q, qd, plan.strategy, plan.agents, TRUE, rejected,
                           rejectionOf(CHOOSE a \in rejected : TRUE), attempts)
            ELSE /\ runs' = [runs EXCEPT ![q] =
                       [pc |-> "calling", queryData |-> qd, plan |-> plan.agents,
                        multi |-> multi, pending |-> started, results |-> {},
                        errors |-> rejected]]
                 /\ activeQueries' = putKey(activeQueries, q,
                       [message |-> qd.message, agents |-> qd.agents,
                        widgetId |-> widgetIdOf(qd), status |-> "processing"])
                 /\ last' = [kind |-> "submit", q |-> q, queryData |-> qd,
                             route |-> plan.strategy, plan |-> plan.agents,
                             executed |-> TRUE, called |-> started, errors |-> rejected,
                             results |-> {}, thrown |-> "",
                             delivered |-> <<>>, synthesized |-> FALSE,
                             attempts |-> attempts]
                 /\ UNCHANGED <<metrics, queryHistory>>

(***************************************************************************)
(* The timer of callAgent fires for agent a of run q: executeSingleQuery   *)
(* resumes; when it was the last pending call of the run, processQuery     *)
(* resumes too and runs to its end.                                        *)
(***************************************************************************)
\* A fan-in that drops the result of an agent that is no longer online, as
\* long as another result is left.
successfulResultsStillOnline(plan, results) ==
  LET ok(id) == \E r \in results : r.agentId = id
      online(id) == ok(id) /\ agentStatus[id] = "online"
      ids == IF SelectSeq(plan, online) # <<>> THEN SelectSeq(plan, online)
             ELSE SelectSeq(plan, ok)
  IN  [i \in 1..Len(ids) |-> CHOOSE r \in results : r.agentId = ids[i]]

\* successfulResults of executeParallelQueries: in plan order.
successfulResults(plan, results) ==
  LET ok(id) == \E r \in results : r.agentId = id
      ids == SelectSeq(plan, ok)
  IN  [i \in 1..Len(ids) |-> CHOOSE r \in results : r.agentId = ids[i]]

\* What executeQueryPlan resolves with.
planResponse(run, results) ==
  IF run.multi
  THEN synthesizeResponses(successfulResults(run.plan, results))
  ELSE LET r == CHOOSE x \in results : x.agentId = run.plan[1]
       IN  [content |-> r.content, sources |-> r.sources, confidence |-> r.confidence]

agentReturns(q, a) ==
  /\ runs[q].pc = "calling"
  /\ a \in runs[q].pending
  /\ LET run == runs[q]
         answer == callAgent(a, run.queryData.message)
         result == [agentId |-> a, content |-> answer.content, sources |-> answer.sources,
                    confidence |-> answer.confidence]
         results == run.results \cup {result}
         pending == run.pending \ {a}
         m1 == updateAgentMetrics(metrics, a, TRUE)
         settled == {r.agentId : r \in results}
     IN
     IF run.multi /\ ~allSettled(pending)
     THEN /\ runs' = [runs EXCEPT ![q].pending = pending, ![q].results = results]
          /\ metrics' = m1
          /\ last' = [Quiet EXCEPT !.kind = "return", !.q = q, !.queryData = run.queryData,
                                   !.plan = run.plan, !.results = settled,
                                   !.errors = run.errors]
          /\ UNCHANGED <<responseCache, activeQueries, queryHistory>>
     ELSE LET response == planResponse(run, results)
          IN  /\ responseCache' = IF shouldCacheResponse(response)
                                  THEN cacheResponse(responseCache, run.queryData, response, now)
                                  ELSE responseCache
              /\ metrics' = updatePerformanceMetrics(m1, run.plan, TRUE)
              /\ queryHistory' = logQuery(queryHistory, run.queryData, response)
              /\ activeQueries' = removeKey(activeQueries, q)
              /\ runs' = [runs EXCEPT ![q] = IdleRun]
              /\ last' = [kind |-> "return", q |-> q, queryData |-> run.queryData,
                          route |-> "done", plan |-> run.plan, executed |-> FALSE,
                          called |-> {}, errors |-> run.errors, results |-> settled,
                          thrown |-> "",
                          delivered |-> <<Event(widgetIdOf(run.queryData), response)>>,
                          synthesized |-> run.multi, attempts |-> NoCalls]
  /\ UNCHANGED <<agentStatus, now, submitted, rec, driven>>

(***************************************************************************)
(* AICanvas.checkAgentHealth and the orchestrator's status-change handler. *)
(***************************************************************************)
\* rerouteQuery for one active query: its agent list afterwards, or <<>>
\* when the query is abandoned.
reroutedAgents(query, failedAgentId) ==
  LET other(id) == id # failedAgentId
      remainingAgents == SelectSeq(query.agents, other)
  IN  IF Len(remainingAgents) > 0 THEN remainingAgents
      ELSE findAlternativeAgents(query.message, {failedAgentId})

\* handleAgentOffline: the active queries afterwards.
handleAgentOffline(active, agentId) ==
  LET affected == {k \in DOMAIN active : agentId \in Range(active[k].agents)}
      abandoned == {k \in affected : reroutedAgents(active[k], agentId) = <<>>}
  IN  [k \in DOMAIN active \ abandoned |->
         IF k \in affected
         THEN [active[k] EXCEPT !.agents = reroutedAgents(active[k], agentId)]
         ELSE active[k]]

\* The error responses rerouteQuery delivers, in the order of the query ids.
RECURSIVE abandonedEvents(_, _, _)
abandonedEvents(active, agentId, k) ==
  IF k > MaxQueries THEN <<>>
  ELSE IF k \in DOMAIN active /\ agentId \in Range(active[k].agents)
          /\ reroutedAgents(active[k], agentId) = <<>>
       THEN <<Event(active[k].widgetId, errorResponse("No alternative agents available"))>>
            \o abandonedEvents(active, agentId, k + 1)
       ELSE abandonedEvents(active, agentId, k + 1)

\* outcome "offline": the agent has no endpoint or the fetch threw; the
\* status is written and no event is dispatched.  outcome "online"/"error":
\* the fetch answered; 'agent:status-changed' runs handleAgentStatusChange.
checkAgentHealth(a, outcome) ==
  /\ agentStatus' = [agentStatus EXCEPT ![a] = outcome]
  /\ IF outcome = "error"
     THEN /\ activeQueries' = handleAgentOffline(activeQueries, a)
          /\ last' = [Quiet EXCEPT !.delivered = abandonedEvents(activeQueries, a, 1)]
     ELSE /\ UNCHANGED activeQueries
          /\ last' = Quiet
  /\ UNCHANGED <<metrics, responseCache, queryHistory, now, runs, submitted, rec, driven>>

\* Time passes.
tick ==
  /\ now < MaxTicks * TickMs
  /\ now' = now + TickMs
  /\ last' = Quiet
  /\ UNCHANGED <<agentStatus, metrics, responseCache, activeQueries, queryHistory,
                 runs, submitted, rec, driven>>

Next ==
  \/ \E q \in QueryIds, queryData \in QueryPool : processQuery(q, queryData)
  \/ \E q \in QueryIds, a \in Registered : agentReturns(q, a)
  \/ \E a \in Registered, outcome \in {"offline", "online", "error"} : checkAgentHealth(a, outcome)
  \/ tick

Spec == Init /\ [][Next]_vars

\* The simulated call of agent a in run q is pending: the timer of callAgent
\* has not fired yet.  This is when agentReturns(q, a) is enabled.
CallPending(q, a) == runs[q].pc = "calling" /\ a \in runs[q].pending

\* The queries of the runs followed to their end: one routed by the engine,
\* and those that name their agents.
FairQueryPool == {x \in QueryPool : x.agents # <<>> \/ x.message = MsgVacation}

FairNext ==
  \/ \E q \in QueryIds, queryData \in FairQueryPool : processQuery(q, queryData)
  \/ \E q \in QueryIds, a \in Registered : agentReturns(q, a)
  \/ \E a \in Registered, outcome \in {"offline", "online", "error"} : checkAgentHealth(a, outcome)
  \/ tick

\* Every simulated agent call completes: weak fairness of agentReturns(q, a),
\* with its enabling condition written out.
FairSpec ==
  /\ Init
  /\ [][FairNext]_vars
  /\ \A q \in QueryIds, a \in Registered :
       \/ []<>~CallPending(q, a)
       \/ []<><<agentReturns(q, a)>>_vars

(***************************************************************************)
(* The routing engine on its own: recommendAgents applied to a message and *)
(* an exclusion set.                                                       *)
(***************************************************************************)
MsgBudget == <<"b","u","d","g","e","t">>
MsgPtoPolicy == <<"p","t","o"," ","P","o","l","i","c","y">>
MsgExpensePolicyPto == <<"e","x","p","e","n","s","e"," ","p","o","l","i","c","y"," ","p","t","o">>
MsgGuideline == <<"G","u","i","d","e","l","i","n","e">>
MsgHelp == <<"h","e","l","p">>
MsgHowTo == <<"H","o","w"," ","t","o">>

RoutingMessages ==
  {MsgVacation, MsgHrHeavy, MsgHello, MsgBudget, MsgPtoPolicy, MsgExpensePolicyPto,
   MsgGuideline, MsgHelp, MsgHowTo}

recommend(message, excludeAgents) ==
  /\ rec' = [message |-> message, excludeAgents |-> excludeAgents,
             result |-> recommendAgents(message, excludeAgents), called |-> TRUE]
  /\ UNCHANGED <<agentStatus, metrics, responseCache, activeQueries, queryHistory, now,
                 runs, submitted, last, driven>>

RoutingNext ==
  \E message \in RoutingMessages, excludeAgents \in SUBSET Range(CapabilityOrder) :
     recommend(message, excludeAgents)

RoutingSpec == Init /\ [][RoutingNext]_vars

(***************************************************************************)
(* synthesizeResponses on its own: applied to the successful results of a  *)
(* plan, each with the sources its agent returned.                         *)
(***************************************************************************)
MaxResults == 2
MaxSources == 2

SourcePool == {Src("A", "first"), Src("A", "second"), Src("B", "first")}

SourceLists == UNION {[1..n -> SourcePool] : n \in 0..MaxSources}

\* The agents of a plan of up to MaxResults + 1 agents, in plan order.
SynthAgents == <<"workday", "policy", "finance", "healthcare">>

\* The result executeSingleQuery resolves with, tagged as executeParallelQueries tags it.
SynthResult(i, sources) ==
  [agentId |-> SynthAgents[i], content |-> <<"answer">>, sources |-> sources,
   confidence |-> 90 * 12]

synthesize(results) ==
  /\ syn' = [results |-> results, response |-> synthesizeResponses(results), called |-> TRUE]
  /\ UNCHANGED <<agentStatus, metrics, responseCache, activeQueries, queryHistory, now,
                 runs, submitted, last, rec, keyed, workspace, components>>

\* The function is applied once, to any of the inputs.
SynthNext ==
  /\ ~syn.called
  /\ \E n \in 1..MaxResults : \E lists \in [1..n -> SourceLists] :
        synthesize([i \in 1..n |-> SynthResult(i, lists[i])])

SynthSpec == Init /\ [][SynthNext]_vars

(***************************************************************************)
(* generateCacheKey on its own: applied to two queries.                    *)
(***************************************************************************)
\* Messages as a user types them: letter case and blanks at the ends vary,
\* and the characters the key is built with occur in them.
KeyMessages ==
  { <<"H","i">>, <<" ","h","i"," ">>, <<"h","i">>, <<"h"," ","i">>, <<"h","o">>,
    <<"h","i","|">>, <<"h","i","|","p","o","l","i","c","y">>,
    <<"h","i","|","p","o","l","i","c","y",",","w","o","r","k","d","a","y">> }

\* Agent lists as the agent chips of a widget give them (absent = <<>>).
KeyAgentLists ==
  { <<>>, <<"policy">>, <<"workday">>, <<"policy", "workday">>, <<"workday", "policy">>,
    <<"workday", "finance", "policy">>, <<"policy", "workday", "finance">> }

KeyQueries == {Query(m, a) : m \in KeyMessages, a \in KeyAgentLists}

generateKeys(first, second) ==
  /\ keyed' = [first |-> first, second |-> second,
               keys |-> <<generateCacheKey(first), generateCacheKey(second)>>,
               called |-> TRUE]
  /\ UNCHANGED <<agentStatus, metrics, responseCache, activeQueries, queryHistory, now,
                 runs, submitted, last, rec, syn, workspace, components>>

\* The function is applied once, to any pair of queries.
KeyNext ==
  /\ ~keyed.called
  /\ \E first \in KeyQueries, second \in KeyQueries : generateKeys(first, second)

KeySpec == Init /\ [][KeyNext]_vars

(***************************************************************************)
(* WidgetManager and the workspace operations of AICanvas.                 *)
(***************************************************************************)
MaxWidgets == 4
MaxExports == 1

Size(width, height) == [width |-> width, height |-> height]

Pos(x, y) == [x |-> x, y |-> y]

\* loadWidgetTemplates: name and defaultSize of each template.
templates ==
  ("multi-agent-chat" :> [name |-> "Multi-Agent Chat", defaultSize |-> Size(400, 350)]) @@
  ("document-processor" :> [name |-> "Document Processor", defaultSize |-> Size(350, 300)]) @@
  ("workflow-orchestrator" :> [name |-> "Workflow Orchestrator", defaultSize |-> Size(500, 350)]) @@
  ("analytics-dashboard" :> [name |-> "Analytics Dashboard", defaultSize |-> Size(450, 300)])

\* A widget configuration handed to createWidget; a field that is absent is
\* <<>>, one that is present is <<value>>.
WidgetConfig(type, title, position, size, config) ==
  [type |-> type, title |-> title, position |-> position, size |-> size, config |-> config]

\* Map.prototype.has / get / set / delete on the insertion-ordered widgets.
mapHas(m, id) == \E i \in 1..Len(m) : m[i].id = id

mapGet(m, id) == m[CHOOSE i \in 1..Len(m) : m[i].id = id]

mapSet(m, id, widget) ==
  IF mapHas(m, id) THEN [i \in 1..Len(m) |-> IF m[i].id = id THEN widget ELSE m[i]]
  ELSE Append(m, widget)

mapDelete(m, id) ==
  LET other(w) == w.id # id
  IN  SelectSeq(m, other)

getDefaultPosition(ws) == Pos(50 + Len(ws) * 30, 100 + Len(ws) * 30)

\* A counter that is read without being advanced.
nextWidgetCounterStuck(counter) == counter

\* ++this.widgetCounter
nextWidgetCounter(counter) == counter + 1

\* createWidget: the widgets, the counter and the returned id (<<>> for null).
createWidget(ws, counter, config) ==
  IF config.type \notin DOMAIN templates
  THEN [widgets |-> ws, widgetCounter |-> counter, result |-> <<>>]
  ELSE LET template == templates[config.type]
           n == nextWidgetCounter(counter)
           widgetId == "widget_" \o ToString(n)
           widget ==
             [id |-> widgetId,
              type |-> config.type,
              title |-> IF config.title # <<>> /\ config.title[1] # ""
                        THEN config.title[1] ELSE template.name,
              position |-> IF config.position # <<>> THEN config.position[1]
                           ELSE getDefaultPosition(ws),
              size |-> IF config.size # <<>> THEN config.size[1] ELSE template.defaultSize,
              config |-> IF config.config # <<>> THEN config.config[1] ELSE {},
              pinned |-> FALSE]
       IN  [widgets |-> mapSet(ws, widgetId, widget), widgetCounter |-> n,
            result |-> <<widgetId>>]

\* createWidget for each configuration of a list, in order.
RECURSIVE createWidgets(_, _, _)
createWidgets(ws, counter, configs) ==
  IF configs = <<>> THEN [widgets |-> ws, widgetCounter |-> counter, result |-> <<>>]
  ELSE LET one == createWidget(ws, counter, Head(configs))
           rest == createWidgets(one.widgets, one.widgetCounter, Tail(configs))
       IN  [rest EXCEPT !.result = one.result \o rest.result]

\* presetConfigs of createDefaultWorkspace.
presetConfigs ==
  ("executive" :>
     <<WidgetConfig("analytics-dashboard", <<>>, <<Pos(50, 100)>>, <<>>, <<>>),
       WidgetConfig("multi-agent-chat", <<>>, <<Pos(400, 100)>>, <<>>, <<>>)>>) @@
  ("hr-manager" :>
     <<WidgetConfig("multi-agent-chat", <<>>, <<Pos(50, 100)>>, <<>>,
                    <<{<<"enabledAgents", <<"workday", "policy", "healthcare">>>>}>>),
       WidgetConfig("document-processor", <<>>, <<Pos(400, 100)>>, <<>>, <<>>)>>) @@
  ("developer" :>
     <<WidgetConfig("workflow-orchestrator", <<>>, <<Pos(50, 100)>>, <<>>, <<>>),
       WidgetConfig("multi-agent-chat", <<>>, <<Pos(450, 100)>>, <<>>, <<>>)>>)

\* The configurations createDefaultWorkspace creates widgets from.
defaultWorkspace(preset) ==
  IF preset \in DOMAIN presetConfigs THEN presetConfigs[preset] ELSE presetConfigs["executive"]

\* getSerializableState: one entry per widget, in insertion order.
getSerializableState(ws) ==
  [i \in 1..Len(ws) |->
     [id |-> ws[i].id, type |-> ws[i].type, title |-> ws[i].title,
      position |-> ws[i].position, size |-> ws[i].size, config |-> ws[i].config,
      pinned |-> ws[i].pinned]]

\* createWidgetFromData
widgetFromData(ws, counter, data) ==
  createWidget(ws, counter,
    WidgetConfig(data.type, <<data.title>>, <<data.position>>, <<data.size>>,
                 <<data.config>>))

\* importData.widgets.forEach(createWidgetFromData)
RECURSIVE restoreWidgets(_, _, _)
restoreWidgets(ws, counter, datas) ==
  IF datas = <<>> THEN [widgets |-> ws, widgetCounter |-> counter, result |-> <<>>]
  ELSE LET one == widgetFromData(ws, counter, Head(datas))
           rest == restoreWidgets(one.widgets, one.widgetCounter, Tail(datas))
       IN  [rest EXCEPT !.result = one.result \o rest.result]

validateImportData(data) == {"version", "preset", "widgets"} \subseteq DOMAIN data

\* AICanvas.initialize: the default workspace of the current preset.
initialize ==
  /\ ~initialized
  /\ LET made == createWidgets(widgets, widgetCounter, defaultWorkspace(currentPreset))
     IN  /\ widgets' = made.widgets
         /\ widgetCounter' = made.widgetCounter
  /\ initialized' = TRUE
  /\ UNCHANGED <<removalTimers, currentPreset, exportFile, importRec, closedIds>>
  /\ UNCHANGED <<orchestration, rec, syn, keyed, components, destroyedEvents, closeError>>

\* A click on a template card.
handleTemplateClick(widgetType) ==
  /\ initialized
  /\ widgetCounter < MaxWidgets
  /\ LET made == createWidget(widgets, widgetCounter,
                   WidgetConfig(widgetType, <<>>, <<getDefaultPosition(widgets)>>, <<>>, <<>>))
     IN  /\ widgets' = made.widgets
         /\ widgetCounter' = made.widgetCounter
  /\ importRec' = NoImport
  /\ UNCHANGED <<removalTimers, currentPreset, initialized, exportFile, closedIds>>
  /\ UNCHANGED <<orchestration, rec, syn, keyed, components, destroyedEvents, closeError>>

\* A drop on the canvas; the dragged text need not name a template.
handleDrop(widgetType, position) ==
  /\ initialized
  /\ widgetCounter < MaxWidgets
  /\ IF widgetType \notin DOMAIN templates
     THEN UNCHANGED <<widgets, widgetCounter, importRec>>
     ELSE LET made == createWidget(widgets, widgetCounter,
                        WidgetConfig(widgetType, <<>>, <<position>>, <<>>, <<>>))
          IN  /\ widgets' = made.widgets
              /\ widgetCounter' = made.widgetCounter
              /\ importRec' = NoImport
  /\ UNCHANGED <<removalTimers, currentPreset, initialized, exportFile, closedIds>>
  /\ UNCHANGED <<orchestration, rec, syn, keyed, components, destroyedEvents, closeError>>

\* closeWidget: the removal is left to a timer.  Without the element,
\* element.style throws before the timer is set.
closeWidget(widgetId) ==
  /\ initialized
  /\ IF mapHas(widgets, widgetId)
     THEN /\ removalTimers' = removalTimers (+) SetToBag({widgetId})
          /\ closeError' = FALSE
     ELSE /\ closeError' = TRUE
          /\ UNCHANGED removalTimers
  /\ importRec' = NoImport
  /\ UNCHANGED <<widgets, widgetCounter, currentPreset, initialized, exportFile, closedIds,
                 destroyedEvents>>
  /\ UNCHANGED <<orchestration, rec, syn, keyed, components>>

\* A timer of closeWidget fires.
removeWidget(widgetId) ==
  /\ BagIn(widgetId, removalTimers)
  /\ widgets' = mapDelete(widgets, widgetId)
  /\ removalTimers' = removalTimers (-) SetToBag({widgetId})
  /\ destroyedEvents' = destroyedEvents (+) SetToBag({widgetId})
  /\ closedIds' = IF mapHas(widgets, widgetId) THEN closedIds \cup {widgetId} ELSE closedIds
  /\ UNCHANGED <<widgetCounter, currentPreset, initialized, exportFile, importRec, closeError>>
  /\ UNCHANGED <<orchestration, rec, syn, keyed, components>>

toggleWidgetPin(widgetId) ==
  /\ initialized
  /\ mapHas(widgets, widgetId)
  /\ widgets' = mapSet(widgets, widgetId,
                       [mapGet(widgets, widgetId) EXCEPT !.pinned = ~@])
  /\ importRec' = NoImport
  /\ UNCHANGED <<widgetCounter, removalTimers, currentPreset, initialized, exportFile,
                 closedIds>>
  /\ UNCHANGED <<orchestration, rec, syn, keyed, components, destroyedEvents, closeError>>

\* A clearUnpinnedWidgets that does not look at the pinned flag.
unpinnedIdsIgnoringPin(ws) == {ws[i].id : i \in 1..Len(ws)}

\* clearUnpinnedWidgets / clearAllWidgets: the ids closeWidget is called for.
unpinnedIds(ws) == {ws[i].id : i \in {j \in 1..Len(ws) : ~ws[j].pinned}}

allIds(ws) == {ws[i].id : i \in 1..Len(ws)}

switchPreset(presetId) ==
  /\ initialized
  /\ currentPreset # presetId
  /\ widgetCounter + Len(defaultWorkspace(presetId)) <= MaxWidgets
  /\ removalTimers' = removalTimers (+) SetToBag(unpinnedIds(widgets))
  /\ currentPreset' = presetId
  /\ LET made == createWidgets(widgets, widgetCounter, defaultWorkspace(presetId))
     IN  /\ widgets' = made.widgets
         /\ widgetCounter' = made.widgetCounter
  /\ importRec' = NoImport
  /\ UNCHANGED <<initialized, exportFile, closedIds>>
  /\ UNCHANGED <<orchestration, rec, syn, keyed, components, destroyedEvents, closeError>>

\* exportWorkspace: the content of the downloaded file.
exportWorkspace ==
  /\ initialized
  /\ Len(exportFile) < MaxExports
  /\ exportFile' = Append(exportFile,
                     [version |-> "1.0.0", preset |-> currentPreset,
                      widgets |-> getSerializableState(widgets)])
  /\ UNCHANGED <<widgets, widgetCounter, removalTimers, currentPreset, initialized,
                 importRec, closedIds>>
  /\ UNCHANGED <<orchestration, rec, syn, keyed, components, destroyedEvents, closeError>>

\* importWorkspace for the file-th exported file, from the point where the
\* file has been read and parsed.
importWorkspace(file) ==
  /\ initialized
  /\ file <= Len(exportFile)
  /\ LET importData == exportFile[file]
         made == restoreWidgets(widgets, widgetCounter, importData.widgets)
     IN  /\ widgetCounter + Len(importData.widgets) <= MaxWidgets
         /\ validateImportData(importData)
         /\ removalTimers' = removalTimers (+) SetToBag(allIds(widgets))
         /\ currentPreset' = importData.preset
         /\ widgets' = made.widgets
         /\ widgetCounter' = made.widgetCounter
         /\ importRec' = [done |-> TRUE, file |-> importData, created |-> made.result,
                          before |-> allIds(widgets)]
  /\ UNCHANGED <<initialized, exportFile, closedIds>>
  /\ UNCHANGED <<orchestration, rec, syn, keyed, components, destroyedEvents, closeError>>

\* The ids a widget can have within the bound.
WidgetIds == {"widget_" \o ToString(n) : n \in 1..MaxWidgets}

\* The workspace operations, each requested for widgets whose removal is not
\* pending already; CloseNext has the requests that come before the timer.
WorkspaceNext ==
  \/ initialize
  \/ \E widgetType \in {"multi-agent-chat"} : handleTemplateClick(widgetType)
  \/ \E widgetType \in {"document-processor", "text/uri-list"} :
       handleDrop(widgetType, Pos(200, 150))
  \/ \E widgetId \in WidgetIds :
       /\ mapHas(widgets, widgetId)
       /\ ~BagIn(widgetId, removalTimers)
       /\ closeWidget(widgetId)
  \/ \E widgetId \in WidgetIds : removeWidget(widgetId)
  \/ \E widgetId \in WidgetIds : toggleWidgetPin(widgetId)
  \/ \E presetId \in {"executive", "hr-manager"} :
       /\ \A widgetId \in unpinnedIds(widgets) : ~BagIn(widgetId, removalTimers)
       /\ switchPreset(presetId)
  \/ exportWorkspace
  \/ \E file \in 1..MaxExports :
       /\ \A widgetId \in allIds(widgets) : ~BagIn(widgetId, removalTimers)
       /\ importWorkspace(file)

WorkspaceSpec == Init /\ [][WorkspaceNext]_vars

\* Closing on its own: a widget is closed again while its removal is pending,
\* and after it.
MaxTimers == 2

CloseNext ==
  \/ initialize
  \/ \E widgetType \in {"multi-agent-chat"} : handleTemplateClick(widgetType)
  \/ \E widgetId \in WidgetIds :
       /\ CopiesIn(widgetId, removalTimers) < MaxTimers
       /\ mapHas(widgets, widgetId) \/ widgetId \in closedIds
       /\ closeWidget(widgetId)
  \/ \E widgetId \in WidgetIds : removeWidget(widgetId)
  \/ \E presetId \in {"executive", "hr-manager"} : switchPreset(presetId)

CloseSpec == Init /\ [][CloseNext]_vars

\* The timers of closeWidget fire: setTimeout callbacks are not starved.
WorkspaceFairSpec ==
  WorkspaceSpec /\ \A widgetId \in WidgetIds : WF_vars(removeWidget(widgetId))

(***************************************************************************)
(* NotificationManager.                                                    *)
(***************************************************************************)
MaxShown == 6

\* The confirmations are among the first MaxConfirms notifications shown.
MaxConfirms == 2

maxNotifications == 5

defaultDuration == 5000

\* The options show is called with: those of confirm, and those of the
\* 'Widget Created' notification.
ShowOptions ==
  { [duration |-> 0, actions |-> <<"cancel", "confirm">>],
    [duration |-> 3000, actions |-> <<>>] }

\* createNotification with setupNotificationHandlers.  timer is "null" while
\* the field holds no timer id, "pending" while the timer it names will still
\* fire, "fired" or "cleared" once that timer has fired or has been cleared.
createNotification(counter, options) ==
  LET duration == IF options.duration # 0 THEN options.duration ELSE defaultDuration
  IN  [id |-> "notification_" \o ToString(counter + 1),
       duration |-> duration,
       actions |-> options.actions,
       timer |-> IF duration > 0 THEN "pending" ELSE "null",
       remainingTime |-> "undefined",
       hovered |-> FALSE]

\* dismiss: clears the timer (a timer that has fired stays as it is) and
\* leaves the removal to a timer of its own.  A
\* second removal timer for the same notification deletes nothing and is not
\* kept apart from the first.
dismiss(ns, timers, notificationId) ==
  IF ~mapHas(ns, notificationId) THEN [notifications |-> ns, dismissTimers |-> timers]
  ELSE [notifications |->
          mapSet(ns, notificationId,
                 [mapGet(ns, notificationId) EXCEPT
                    !.timer = IF @ = "pending" THEN "cleared" ELSE @]),
        dismissTimers |-> timers \cup {notificationId}]

\* show: createNotification, then addNotification.
show(options) ==
  /\ notificationCounter < MaxShown
  /\ options.actions # <<>> => notificationCounter < MaxConfirms
  /\ LET notification == createNotification(notificationCounter, options)
         atLimit == Len(notifications) >= maxNotifications
         made == IF atLimit
                 THEN dismiss(notifications, dismissTimers, notifications[1].id)
                 ELSE [notifications |-> notifications, dismissTimers |-> dismissTimers]
     IN  /\ notifications' = Append(made.notifications, notification)
         /\ dismissTimers' = made.dismissTimers
  /\ notificationCounter' = notificationCounter + 1
  /\ UNCHANGED <<orchestration, rec, syn, keyed, workspace, chatting>>
  /\ UNCHANGED <<appAgents, activePreset, chips, sent>>

\* The timer set by startDismissTimer or resumeTimer fires.
dismissTimerFires(notificationId) ==
  /\ mapHas(notifications, notificationId)
  /\ mapGet(notifications, notificationId).timer = "pending"
  /\ LET fired == mapSet(notifications, notificationId,
                        [mapGet(notifications, notificationId) EXCEPT !.timer = "fired"])
         made == dismiss(fired, dismissTimers, notificationId)
     IN  /\ notifications' = made.notifications
         /\ dismissTimers' = made.dismissTimers
  /\ UNCHANGED <<notificationCounter, orchestration, rec, syn, keyed, workspace, chatting>>
  /\ UNCHANGED <<appAgents, activePreset, chips, sent>>

\* The handlers of the close button, of an action button and of Escape.
dismissByUser(notificationId, control) ==
  /\ mapHas(notifications, notificationId)
  /\ control = "action" => mapGet(notifications, notificationId).actions # <<>>
  /\ LET made == dismiss(notifications, dismissTimers, notificationId)
     IN  /\ notifications' = made.notifications
         /\ dismissTimers' = made.dismissTimers
  /\ UNCHANGED <<notificationCounter, orchestration, rec, syn, keyed, workspace, chatting>>
  /\ UNCHANGED <<appAgents, activePreset, chips, sent>>

\* mouseenter: pauseTimer.  The time left depends on the clock: it is not
\* positive when the timer was due already.
pauseTimer(notificationId) ==
  /\ mapHas(notifications, notificationId)
  /\ ~mapGet(notifications, notificationId).hovered
  /\ \E left \in {"positive", "elapsed"} :
       notifications' =
         mapSet(notifications, notificationId,
                LET n == mapGet(notifications, notificationId)
                IN  IF n.timer = "null" THEN [n EXCEPT !.hovered = TRUE]
                    ELSE [n EXCEPT !.hovered = TRUE,
                                   !.timer = IF @ = "pending" THEN "cleared" ELSE @,
                                   !.remainingTime = left])
  /\ UNCHANGED <<notificationCounter, dismissTimers, orchestration, rec, syn, keyed,
                 workspace, chatting>>
  /\ UNCHANGED <<appAgents, activePreset, chips, sent>>

\* mouseleave: resumeTimer.
resumeTimer(notificationId) ==
  /\ mapHas(notifications, notificationId)
  /\ mapGet(notifications, notificationId).hovered
  /\ notifications' =
       mapSet(notifications, notificationId,
              LET n == mapGet(notifications, notificationId)
              IN  IF n.remainingTime = "positive"
                  THEN [n EXCEPT !.hovered = FALSE, !.timer = "pending"]
                  ELSE [n EXCEPT !.hovered = FALSE])
  /\ UNCHANGED <<notificationCounter, dismissTimers, orchestration, rec, syn, keyed,
                 workspace, chatting>>
  /\ UNCHANGED <<appAgents, activePreset, chips, sent>>

\* The timer of dismiss fires: the notification leaves the map, and with it
\* the element that receives the mouse and keyboard events.
removeNotification(notificationId) ==
  /\ notificationId \in dismissTimers
  /\ notifications' = mapDelete(notifications, notificationId)
  /\ dismissTimers' = dismissTimers \ {notificationId}
  /\ UNCHANGED <<notificationCounter, orchestration, rec, syn, keyed, workspace, chatting>>
  /\ UNCHANGED <<appAgents, activePreset, chips, sent>>

NotificationIds == {"notification_" \o ToString(n) : n \in 1..MaxShown}

\* The pointer is moved over the first notification only.
NotifyNext ==
  \/ \E options \in ShowOptions : show(options)
  \/ \E notificationId \in NotificationIds : dismissTimerFires(notificationId)
  \/ \E notificationId \in NotificationIds, control \in {"close", "action", "escape"} :
       dismissByUser(notificationId, control)
  \/ \E notificationId \in {"notification_1"} : pauseTimer(notificationId)
  \/ \E notificationId \in {"notification_1"} : resumeTimer(notificationId)
  \/ \E notificationId \in NotificationIds : removeNotification(notificationId)

NotifySpec == Init /\ [][NotifyNext]_vars

\* The timers of startDismissTimer, resumeTimer and dismiss fire.
NotifyFairSpec ==
  /\ NotifySpec
  /\ \A notificationId \in NotificationIds :
       /\ WF_vars(dismissTimerFires(notificationId))
       /\ WF_vars(removeNotification(notificationId))

(***************************************************************************)
(* The chat widget, the 'widget:agent-query' listeners and the way         *)
(* 'agent:response-ready' comes back to the widget.  A task that spans     *)
(* several steps here (a dispatch with its listeners, a processQuery run   *)
(* with the listeners of the event it dispatches) is not interleaved with  *)
(* other tasks.                                                            *)
(***************************************************************************)
\* The listeners of 'widget:agent-query', in the order of their registration
\* by initializeComponents.
agentQueryListeners ==
  IF initialized
  THEN <<"AgentOrchestrator.setupEventListeners", "AICanvas.setupComponentCommunication">>
  ELSE <<>>

\* No processQuery call is outstanding and no event waits for its listeners.
ChatIdle == Len(calls) = submitted /\ last.delivered = <<>>

isChatWidget(widgetId) ==
  mapHas(widgets, widgetId) /\ mapGet(widgets, widgetId).type = "multi-agent-chat"

\* handleChatSubmission up to its await.
handleChatSubmission(widgetId, message, enabledAgents) ==
  /\ isChatWidget(widgetId)
  /\ Len(calls) < MaxQueries
  /\ LET submission(m) == m.type = "user"
     IN  Len(SelectSeq(chatMessages, submission)) < MaxQueries
  /\ IF enabledAgents = <<>>
     THEN /\ chatMessages' = chatMessages \o <<[widgetId |-> widgetId, type |-> "user"],
                                               [widgetId |-> widgetId, type |-> "system"]>>
          /\ UNCHANGED calls
     ELSE /\ chatMessages' = Append(chatMessages, [widgetId |-> widgetId, type |-> "user"])
          /\ calls' = Append(calls,
               [queryData |-> [hasMessage |-> TRUE, message |-> message,
                               hasWidgetId |-> TRUE, agents |-> enabledAgents,
                               widgetId |-> widgetId, context |-> <<>>],
                by |-> "handleChatSubmission", event |-> 0])
  /\ UNCHANGED <<orchestration, rec, syn, keyed, workspace, notifying>>
  /\ UNCHANGED <<appAgents, activePreset, chips, sent>>

\* document.dispatchEvent of the n-th 'widget:agent-query' event: every
\* listener calls processQuery with the event's detail.
dispatchAgentQuery(n, detail) ==
  /\ initialized
  /\ \A i \in 1..Len(calls) : calls[i].event < n
  /\ n > 1 => \E i \in 1..Len(calls) : calls[i].event = n - 1
  /\ Len(calls) + Len(agentQueryListeners) <= MaxQueries
  /\ calls' = calls \o [i \in 1..Len(agentQueryListeners) |->
                          [queryData |-> detail, by |-> agentQueryListeners[i], event |-> n]]
  /\ UNCHANGED <<chatMessages, orchestration, rec, syn, keyed, workspace, notifying>>
  /\ UNCHANGED <<appAgents, activePreset, chips, sent>>

\* The listeners of 'agent:response-ready' for the events the latest task
\* has dispatched (handleAgentResponse), and then, when that task ended a
\* processQuery run awaited by handleChatSubmission, the rest of
\* handleChatSubmission: processQuery has resolved with undefined, so
\* reading response.content throws and the catch block adds the error message.
deliverResponseReady ==
  /\ last.delivered # <<>>
  /\ LET shown(e) == isChatWidget(e.widgetId)
         events == SelectSeq(last.delivered, shown)
         assistant == [i \in 1..Len(events) |->
                         [widgetId |-> events[i].widgetId, type |-> "assistant"]]
         ended == last.kind = "submit" \/ (last.kind = "return" /\ last.route = "done")
         awaited == ended /\ "context" \in DOMAIN last.queryData
         resumed == IF awaited /\ isChatWidget(last.queryData.widgetId)
                    THEN <<[widgetId |-> last.queryData.widgetId, type |-> "error"]>>
                    ELSE <<>>
     IN  chatMessages' = chatMessages \o assistant \o resumed
  /\ last' = [last EXCEPT !.delivered = <<>>]
  /\ UNCHANGED <<agentStatus, metrics, responseCache, activeQueries, queryHistory, now,
                 runs, submitted, calls, rec, syn, keyed, workspace, notifying>>
  /\ UNCHANGED <<appAgents, activePreset, chips, sent>>

MaxEvents == 1

\* widget_2 is the chat widget of the executive preset; its template has
\* the chips of workday and policy active.
ChatNext ==
  \/ ChatIdle /\ initialize
  \/ \E a \in Registered, outcome \in {"offline", "online"} :
       ChatIdle /\ checkAgentHealth(a, outcome)
  \/ \E widgetId \in {"widget_2"},
       enabledAgents \in {<<>>, <<"workday">>, <<"workday", "policy">>} :
       ChatIdle /\ handleChatSubmission(widgetId, MsgVacation, enabledAgents)
  \/ \E n \in 1..MaxEvents, widgetId \in {"widget_2"} :
       ChatIdle /\ dispatchAgentQuery(n, [Query(MsgVacation, <<"workday">>) EXCEPT
                                            !.hasWidgetId = TRUE] @@ [widgetId |-> widgetId])
  \/ \E q \in QueryIds :
       /\ Len(calls) > submitted
       /\ last.delivered = <<>>
       /\ processQuery(q, calls[submitted + 1].queryData)
  \/ \E q \in QueryIds, a \in Registered : ChatIdle /\ agentReturns(q, a)
  \/ deliverResponseReady

ChatSpec == Init /\ [][ChatNext]_vars

(***************************************************************************)
(* AICanvasApp: the agent toggles, the presets, the configuration dialog   *)
(* and the chat widget with its agent chips.                               *)
(***************************************************************************)
\* updateWidgetAgents: the chips of the chat widget afterwards.
updateWidgetAgents(cs, ags) ==
  [i \in 1..Len(cs) |->
     LET agent == ags[cs[i].agent]
         off == ~agent.enabled \/ agent.status = "offline"
     IN  [cs[i] EXCEPT !.disabled = off, !.active = IF off THEN FALSE ELSE @]]

toggleAgent(agentId) ==
  /\ IF agentId \notin DOMAIN appAgents \/ appAgents[agentId].status = "offline"
     THEN UNCHANGED <<appAgents, chips>>
     ELSE /\ appAgents' = [appAgents EXCEPT ![agentId].enabled = ~@]
          /\ chips' = updateWidgetAgents(chips, appAgents')
  /\ sent' = NoSend
  /\ UNCHANGED <<activePreset, orchestration, rec, syn, keyed, workspace, notifying, chatting>>

applyPreset(presetId) ==
  LET agentPresets == [x \in {"all-agents", "hr-focus", "finance-tools", "policy-search"} |->
                          CASE x = "all-agents" -> {"workday", "policy", "healthcare", "finance"}
                            [] x = "hr-focus" -> {"workday", "policy", "healthcare"}
                            [] x = "finance-tools" -> {"finance", "policy"}
                            [] x = "policy-search" -> {"policy", "workday"}]
      enabledAgents == IF presetId \in DOMAIN agentPresets THEN agentPresets[presetId]
                       ELSE agentPresets["all-agents"]
  IN  /\ activePreset' = presetId
      /\ appAgents' = [agentId \in DOMAIN appAgents |->
                         IF appAgents[agentId].status # "offline"
                         THEN [appAgents[agentId] EXCEPT !.enabled = agentId \in enabledAgents]
                         ELSE appAgents[agentId]]
      /\ chips' = updateWidgetAgents(chips, appAgents')
      /\ sent' = NoSend
      /\ UNCHANGED <<orchestration, rec, syn, keyed, workspace, notifying, chatting>>

\* saveWidgetConfig for the chat widget: checked is the set of ticked agent
\* checkboxes; the dialog has a checkbox for each agent that is not offline.
saveWidgetConfig(checked) ==
  /\ checked \subseteq {agentId \in DOMAIN appAgents : appAgents[agentId].status # "offline"}
  /\ appAgents' = [agentId \in DOMAIN appAgents |->
                     IF appAgents[agentId].status # "offline"
                     THEN [appAgents[agentId] EXCEPT !.enabled = agentId \in checked]
                     ELSE appAgents[agentId]]
  /\ chips' = updateWidgetAgents(chips, appAgents')
  /\ sent' = NoSend
  /\ UNCHANGED <<activePreset, orchestration, rec, syn, keyed, workspace, notifying, chatting>>

\* A click on the i-th agent chip of the chat widget.
agentChipClick(i) ==
  /\ i \in 1..Len(chips)
  /\ chips' = [chips EXCEPT ![i].active = ~@]
  /\ sent' = NoSend
  /\ UNCHANGED <<appAgents, activePreset>>
  /\ UNCHANGED <<orchestration, rec, syn, keyed, workspace, notifying, chatting>>

\* sendChatMessage, with the mock response its timer adds: the response
\* lists the chips that were active when the message was sent.
sendChatMessage(message) ==
  /\ LET active(chip) == chip.active
         activeChips == SelectSeq(chips, active)
         activeAgents == [i \in 1..Len(activeChips) |-> activeChips[i].agent]
     IN  sent' = [called |-> TRUE, message |-> message, agents |-> activeAgents,
                  type |-> IF Len(activeAgents) = 0 THEN "system" ELSE "assistant"]
  /\ UNCHANGED <<appAgents, activePreset, chips>>
  /\ UNCHANGED <<orchestration, rec, syn, keyed, workspace, notifying, chatting>>

AppNext ==
  \/ \E agentId \in DOMAIN appAgents : toggleAgent(agentId)
  \/ \E presetId \in {"all-agents", "hr-focus", "finance-tools"} : applyPreset(presetId)
  \/ \E checked \in SUBSET {"workday", "policy", "finance"} : saveWidgetConfig(checked)
  \/ \E i \in 1..2 : agentChipClick(i)
  \/ \E message \in {MsgVacation, MsgHello} : sendChatMessage(message)

AppSpec == Init /\ [][AppNext]_vars

(***************************************************************************)
(* Properties of routing plans and of the dispatch (Spec).                 *)
(***************************************************************************)
\* The latest task was a processQuery call that got a plan from createRoutingPlan.
PlanCreated == last.kind = "submit" /\ last.route \in {"smart", "specified"} /\ last.plan # <<>>

isOnline(a) == a \in Registered /\ agentStatus[a] = "online"

\* C1: no routing plan contains an agent whose status is 'offline' when the
\* plan is created, whether the query names its agents or leaves the choice
\* to recommendAgents.  (processQuery does not change a status, so the
\* statuses after the step are those at plan creation.)
C1_NoOfflineAgentInPlan ==
  PlanCreated =>
    \A a \in Range(last.plan) : a \in Registered => agentStatus[a] # "offline"

\* C2: every plan handed to executeQueryPlan holds at least one agent, and a
\* query that names agents none of which is online ends in createRoutingPlan
\* with the availability error, before any agent is called.
C2_PlanNonEmptyOrFailFast ==
  last.kind = "submit" =>
    /\ last.executed => Len(last.plan) >= 1
    /\ (last.route = "specified" /\ \A a \in Range(last.queryData.agents) : ~isOnline(a))
         => /\ last.thrown = "No available agents for this query"
            /\ ~last.executed
            /\ last.called = {}
            /\ runs[last.q].pc = "idle"

C2_Witness ==
  /\ last.kind = "submit"
  /\ last.route = "specified"
  /\ last.queryData.agents # <<>>
  /\ \A a \in Range(last.queryData.agents) : ~isOnline(a)
  /\ last.thrown = "No available agents for this query"

\* The latest task dispatched a multi-agent plan and every one of its agent
\* calls failed.
AllCallsFailed ==
  /\ last.kind = "submit"
  /\ last.executed
  /\ Len(last.plan) > 1
  /\ \A a \in Range(last.plan) : ~isOnline(a)

\* C3: when every agent call of a multi-agent plan fails, the dispatch fails
\* with 'All agents failed to respond', synthesizeResponses is not invoked,
\* and the only response delivered for the query is an error response (the
\* run is over, so none follows).
C3_AllFailedAggregateError ==
  AllCallsFailed =>
    /\ last.thrown = "All agents failed to respond"
    /\ ~last.synthesized
    /\ last.called = {}
    /\ Len(last.delivered) = 1
    /\ isError(last.delivered[1].response)
    /\ runs[last.q].pc = "idle"

C3_Witness ==
  AllCallsFailed /\ last.errors = Range(last.plan) /\ Len(last.delivered) = 1

\* C4: in a multi-agent dispatch a failed call does not stop the others: every
\* online agent of the plan is called although another agent of the plan was
\* rejected; no response is delivered while a call is pending; the response
\* is built when every call has settled, from exactly the calls that
\* succeeded, in plan order, and names no failed agent.
C4_FailureIsolated ==
  /\ (last.kind = "submit" /\ last.executed /\ Len(last.plan) > 1)
       => last.called = {a \in Range(last.plan) : isOnline(a)}
  /\ \A q \in QueryIds :
       (runs[q].pc = "calling" /\ runs[q].multi) =>
          /\ runs[q].pending # {}
          /\ runs[q].pending \cup runs[q].errors \cup {r.agentId : r \in runs[q].results}
               = Range(runs[q].plan)
          /\ (last.q = q => last.delivered = <<>>)
  /\ (last.kind = "return" /\ last.synthesized) =>
       LET response == last.delivered[1].response
           succeeded == Range(last.plan) \ last.errors
           inPlanOrder(id) == id \in succeeded
       IN  /\ Len(last.delivered) = 1
           /\ last.results \cup last.errors = Range(last.plan)
           /\ last.results = succeeded
           /\ response.agents = SelectSeq(last.plan, inPlanOrder)
           /\ Range(response.agents) \cap last.errors = {}

\* A multi-agent run in which one call failed and another succeeded has ended.
C4_Witness ==
  /\ last.kind = "return"
  /\ last.synthesized
  /\ last.errors # {}
  /\ last.results # {}
  /\ Len(last.delivered) = 1

(***************************************************************************)
(* Properties of the response cache (Spec).                                *)
(***************************************************************************)
\* The step is a processQuery call for a well-formed query.
ValidQuerySubmitted ==
  submitted' = submitted + 1 /\ last'.kind = "submit" /\ last'.route # "invalid"

\* The cache key of the query of the step.
SubmittedKey == cacheKeyOf(last'.queryData.message, last'.queryData.agents)

\* The step ended a run with a response that qualifies for the cache.
CacheableResponseDelivered ==
  /\ last'.kind = "return"
  /\ last'.route = "done"
  /\ last'.delivered[1].response.confidence > 70 * 12

\* C5: the response delivered for a query is stored under the query's
\* (message, agent set) key; an identical query that arrives while the entry
\* is younger than the TTL is answered with that stored response and without
\* any agent call; one that arrives when the entry is older than the TTL is
\* routed and dispatched again.
C5_CachedWithinTtl ==
  [][ /\ CacheableResponseDelivered =>
           LET key == cacheKeyOf(last'.queryData.message, last'.queryData.agents)
           IN  /\ key \in DOMAIN responseCache'
               /\ responseCache'[key].response = last'.delivered[1].response
               /\ responseCache'[key].timestamp = now
      /\ (ValidQuerySubmitted /\ SubmittedKey \in DOMAIN responseCache) =>
           LET entry == responseCache[SubmittedKey]
               age == now - entry.timestamp
           IN  /\ age < cacheExpiry =>
                    /\ last'.route = "hit"
                    /\ last'.delivered =
                         <<Event(widgetIdOf(last'.queryData), entry.response)>>
                    /\ last'.called = {}
                    /\ ~last'.executed
               /\ age > cacheExpiry =>
                    /\ last'.route \in {"smart", "specified"}
                    /\ \A e \in Range(last'.delivered) : e.response # entry.response
                    /\ (last'.route = "smart" \/ \E a \in Range(last'.queryData.agents) : isOnline(a))
                         => last'.executed
                    /\ (\E a \in Range(last'.plan) : isOnline(a)) => last'.called # {}
    ]_vars

\* A query was answered from an entry stored earlier.
C5_Witness ==
  /\ last.kind = "submit"
  /\ last.route = "hit"
  /\ LET key == cacheKeyOf(last.queryData.message, last.queryData.agents)
     IN  /\ key \in DOMAIN responseCache
         /\ now - responseCache[key].timestamp > 0
         /\ now - responseCache[key].timestamp < cacheExpiry

\* C6: a query answered from the cache calls no agent and leaves the agent
\* metrics, the query history, the active queries and the cache as they
\* were; it delivers the stored response and nothing else.
C6_CacheHitFrame ==
  [][ (submitted' = submitted + 1 /\ last'.route = "hit") =>
        /\ UNCHANGED <<metrics, queryHistory, activeQueries, responseCache, agentStatus, runs>>
        /\ last'.called = {}
        /\ ~last'.executed
        /\ SubmittedKey \in DOMAIN responseCache
        /\ last'.delivered =
             <<Event(widgetIdOf(last'.queryData), responseCache[SubmittedKey].response)>>
    ]_vars

\* A cache hit in a state with recorded metrics and history.
C6_Witness ==
  /\ last.route = "hit"
  /\ Len(last.delivered) = 1
  /\ queryHistory # <<>>
  /\ DOMAIN responseCache # {}
  /\ \E a \in Registered : metrics[a].totalQueries > 0

\* C7: every cache entry holds a response that is no error response and
\* whose confidence is strictly above 0.7.
C7_CacheHoldsConfidentResponses ==
  \A key \in DOMAIN responseCache :
     /\ ~isError(responseCache[key].response)
     /\ responseCache[key].response.confidence > 70 * 12

\* A response of confidence 0.7 was delivered and not stored, while another
\* response is in the cache.
C7_Witness ==
  /\ last.kind = "return"
  /\ last.route = "done"
  /\ last.delivered[1].response.confidence = 70 * 12
  /\ cacheKeyOf(last.queryData.message, last.queryData.agents) \notin DOMAIN responseCache
  /\ DOMAIN responseCache # {}

(***************************************************************************)
(* Properties of SmartRoutingEngine.recommendAgents (RoutingSpec).         *)
(***************************************************************************)
Categories == Range(CategoryOrder)

RoutingAgents == Range(CapabilityOrder)

\* The category has a keyword in the lower-cased message of the call.
CategoryMatches(category) == matchCount(toLowerCase(rec.message), category) > 0

\* The agent's score as the claims define it: over the categories it serves
\* that match, the sum of the numbers of their keywords in the message.
RECURSIVE SumMatches(_, _, _)
SumMatches(agentId, lowerMessage, c) ==
  IF c > Len(CategoryOrder) THEN 0
  ELSE (IF CategoryOrder[c] \in Range(agentCapabilities[agentId])
        THEN matchCount(lowerMessage, CategoryOrder[c]) ELSE 0)
       + SumMatches(agentId, lowerMessage, c + 1)

ScoreOf(agentId) == SumMatches(agentId, toLowerCase(rec.message), 1)

\* The agents that score in the call: not excluded, with a positive score.
Scoring == {a \in RoutingAgents \ rec.excludeAgents : ScoreOf(a) > 0}

\* C8: when the message holds a keyword of category C, the recommendation is
\* non-empty and every recommended agent lists C among its capabilities.
C8_RecommendedServeCategory ==
  (rec.called /\ rec.excludeAgents = {}) =>
    \A category \in Categories :
       CategoryMatches(category) =>
          /\ rec.result # <<>>
          /\ \A a \in Range(rec.result) : category \in Range(agentCapabilities[a])

\* C9: no recommended agent is in the exclusion set, and when no category
\* keyword occurs in the message the recommendation is 'workday', 'policy'
\* without the excluded ones, in that order.
C9_ExclusionAndDefault ==
  rec.called =>
    /\ Range(rec.result) \cap rec.excludeAgents = {}
    /\ (\A category \in Categories : ~CategoryMatches(category)) =>
          rec.result = (IF "workday" \in rec.excludeAgents THEN <<>> ELSE <<"workday">>)
                       \o (IF "policy" \in rec.excludeAgents THEN <<>> ELSE <<"policy">>)

\* recommendAgents ran on a message without keywords, with 'workday' excluded.
C9_Witness ==
  /\ rec.called
  /\ \A category \in Categories : ~CategoryMatches(category)
  /\ "workday" \in rec.excludeAgents
  /\ rec.result = <<"policy">>

\* C10: when an agent scores, the recommendation holds the best-scoring
\* agents, at most three, each once, in order of non-increasing score.
C10_TopThreeByScore ==
  (rec.called /\ Scoring # {}) =>
    /\ Len(rec.result) <= 3
    /\ Len(rec.result) = (IF Cardinality(Scoring) < 3 THEN Cardinality(Scoring) ELSE 3)
    /\ Range(rec.result) \subseteq Scoring
    /\ \A i, j \in 1..Len(rec.result) : i < j =>
          /\ rec.result[i] # rec.result[j]
          /\ ScoreOf(rec.result[i]) >= ScoreOf(rec.result[j])
    /\ \A a \in Scoring \ Range(rec.result) :
          \A i \in 1..Len(rec.result) : ScoreOf(rec.result[i]) >= ScoreOf(a)

\* Two agents scored differently and the later-inserted one ranks first.
C10_Witness ==
  /\ rec.called
  /\ Len(rec.result) = 2
  /\ rec.result = <<"policy", "workday">>
  /\ ScoreOf("policy") > ScoreOf("workday")


\* The agents whose results the latest task's response was built from, in plan order.
Contributors ==
  LET answered(id) == id \in last.results
  IN  SelectSeq(last.plan, answered)

\* C12: every response delivered for an answered query names its contributing
\* agents and carries the synthesized flag: one contributor gives that agent's
\* content unchanged with synthesized = FALSE and agents = <<that agent>>,
\* several give synthesized = TRUE and agents = the successful agents.
C12_ResponseNamesContributors ==
  (last.kind = "return" /\ last.delivered # <<>>) =>
    LET response == last.delivered[1].response
    IN  /\ "agents" \in DOMAIN response
        /\ "synthesized" \in DOMAIN response
        /\ response.agents = Contributors
        /\ response.synthesized = (Len(Contributors) > 1)
        /\ Len(Contributors) = 1 =>
             response.content = callAgent(Contributors[1], last.queryData.message).content

\* C13: when an agent goes offline while a query that has a call to it in
\* flight, the query is rerouted (the call to that agent is no longer one the
\* query waits for) or the query is abandoned with an error response.
C13_OfflineReroutesInFlight ==
  [][\A a \in Registered, q \in QueryIds :
       ( /\ agentStatus[a] # "offline"
         /\ agentStatus'[a] = "offline"
         /\ runs[q].pc = "calling"
         /\ a \in runs[q].pending )
       => \/ a \notin runs'[q].pending
          \/ /\ runs'[q].pc = "idle"
             /\ \E i \in 1..Len(last'.delivered) :
                  /\ last'.delivered[i].widgetId = widgetIdOf(runs[q].queryData)
                  /\ isError(last'.delivered[i].response)]_vars

QueryFailed ==
  /\ last.kind = "submit"
  /\ last.route # "hit"
  /\ \/ ~validateQuery(last.queryData)
     \/ /\ last.queryData.agents # <<>>
        /\ \A a \in Range(last.queryData.agents) : ~isOnline(a)
     \/ last.executed /\ Len(last.plan) = 1 /\ ~isOnline(last.plan[1])
     \/ last.executed /\ Len(last.plan) > 1 /\ \A a \in Range(last.plan) : ~isOnline(a)

C17_LookupBelowTtlOnly ==
  [][ (ValidQuerySubmitted /\ SubmittedKey \in DOMAIN responseCache) =>
        LET age == now - responseCache[SubmittedKey].timestamp
        IN  /\ last'.route = "hit" => age < cacheExpiry
            /\ age >= cacheExpiry => SubmittedKey \notin DOMAIN responseCache'
    ]_vars

\* C19: a query can complete after its agent has been marked offline.  The
\* response of a multi-agent plan lists every agent whose call returned, also
\* one whose status is no longer 'online' when the response is delivered (its
\* call was started while it was online, so the status changed in between).
C19_OfflineAgentStillContributes ==
  (last.kind = "return" /\ last.delivered # <<>>) =>
    LET response == last.delivered[1].response
    IN  /\ ~isError(response)
        /\ "agents" \in DOMAIN response =>
             \A a \in last.results : agentStatus[a] # "online" => a \in Range(response.agents)

\* A response has been delivered that lists an agent whose status is 'offline'.
C19_Witness ==
  /\ last.kind = "return"
  /\ last.delivered # <<>>
  /\ "agents" \in DOMAIN last.delivered[1].response
  /\ \E a \in Range(last.delivered[1].response.agents) : agentStatus[a] = "offline"

\* The call of agent a for some run returns in the step.
CallReturns(a) ==
  \E q \in QueryIds :
    /\ runs[q].pc = "calling"
    /\ a \in runs[q].pending
    /\ a \notin runs'[q].pending

\* C21: the metrics change once per call, for the called agent only: a step
\* in which the call of an agent returns adds 1 to that agent's totalQueries
\* and to its successfulQueries, and every other agent (one that was not
\* called, one that was rejected as not online) keeps its counters.
C21_MetricsOncePerCall ==
  [][\A a \in Registered :
       LET n == IF CallReturns(a) THEN 1 ELSE 0
       IN  /\ metrics'[a].totalQueries = metrics[a].totalQueries + n
           /\ metrics'[a].successfulQueries = metrics[a].successfulQueries + n]_vars

\* C27: activeQueries holds no entry for a run that has ended, so it is empty
\* when no query is being processed, and every entry is eventually removed.
C27_ActiveQueriesAreRemoved ==
  /\ [](\A q \in QueryIds : runs[q].pc = "idle" => q \notin DOMAIN activeQueries)
  /\ \A q \in QueryIds : (q \in DOMAIN activeQueries) ~> (q \notin DOMAIN activeQueries)

\* A run that had registered its query has ended with a response; nothing is
\* left in activeQueries.
C27_Witness ==
  /\ last.kind = "return"
  /\ last.route = "done"
  /\ \A q \in QueryIds : runs[q].pc = "idle"
  /\ activeQueries = <<>>

(***************************************************************************)
(* Properties of synthesizeResponses (SynthSpec).                          *)
(***************************************************************************)
\* Every source of the results, in plan order.
AllSynSources == concatAll([i \in 1..Len(syn.results) |-> syn.results[i].sources])

\* Position of the first source named n among all the sources.
FirstIndex(n) ==
  CHOOSE i \in 1..Len(AllSynSources) :
    /\ AllSynSources[i].name = n
    /\ \A j \in 1..(i - 1) : AllSynSources[j].name # n

\* C11: for two or more successful results the synthesized source list holds
\* each distinct source name exactly once, holds for each name the first
\* source of that name, and lists them in the order of their first occurrence.
C11_SourcesFirstOccurrence ==
  (syn.called /\ Len(syn.results) >= 2) =>
    LET out == syn.response.sources
    IN  /\ \A i, j \in 1..Len(out) : out[i].name = out[j].name => i = j
        /\ {out[i].name : i \in 1..Len(out)}
             = {AllSynSources[i].name : i \in 1..Len(AllSynSources)}
        /\ \A i \in 1..Len(out) : out[i] = AllSynSources[FirstIndex(out[i].name)]
        /\ \A i, j \in 1..Len(out) :
             i < j => FirstIndex(out[i].name) < FirstIndex(out[j].name)

\* Two results whose sources are named A, A, B, carrying different
\* descriptions for the two A's, have been synthesized into A, B.
C11_Witness ==
  /\ syn.called
  /\ Len(syn.results) = 2
  /\ AllSynSources = <<Src("A", "first"), Src("A", "second"), Src("B", "first")>>
  /\ syn.response.sources = <<Src("A", "first"), Src("B", "first")>>


(***************************************************************************)
(* Properties of generateCacheKey (KeySpec).                               *)
(***************************************************************************)
NormalizedMessage(queryData) == trim(toLowerCase(queryData.message))

\* How often id occurs in the agent list.
Occurrences(agents, id) == Cardinality({i \in 1..Len(agents) : agents[i] = id})

IsPermutation(a, b) ==
  /\ Len(a) = Len(b)
  /\ \A id \in Range(a) \cup Range(b) : Occurrences(a, id) = Occurrences(b, id)

\* C16: two queries with equal normalized messages and agent lists that are
\* permutations of each other get the same cache key; two queries that differ
\* in the normalized message or in the set of agents get different keys.
C16_CacheKeyEquivalence ==
  keyed.called =>
    /\ ( /\ NormalizedMessage(keyed.first) = NormalizedMessage(keyed.second)
         /\ IsPermutation(keyed.first.agents, keyed.second.agents) )
         => keyed.keys[1] = keyed.keys[2]
    /\ ( \/ NormalizedMessage(keyed.first) # NormalizedMessage(keyed.second)
         \/ Range(keyed.first.agents) # Range(keyed.second.agents) )
         => keyed.keys[1] # keyed.keys[2]

\* Two queries that differ in letter case, in surrounding blanks and in the
\* order of their agents have been given one key.
C16_Witness ==
  /\ keyed.called
  /\ keyed.first.message = <<"H","i">>
  /\ keyed.second.message = <<" ","h","i"," ">>
  /\ keyed.first.agents = <<"workday", "finance", "policy">>
  /\ keyed.second.agents = <<"policy", "workday", "finance">>
  /\ keyed.keys = <<"hi|finance,policy,workday", "hi|finance,policy,workday">>


(***************************************************************************)
(* Properties of the widgets and of the workspace file (WorkspaceSpec).    *)
(***************************************************************************)
\* The widget but for its pinned flag, which toggleWidgetPin changes.
Unpinned(w) == [w EXCEPT !.pinned = FALSE]

\* C18: no two widgets of WidgetManager.widgets share an identifier, an
\* identifier stays with the widget it was given to, and the identifier of a
\* widget that has been removed is never given to a later widget.
C18_WidgetIdsUnique ==
  [][/\ \A i, j \in 1..Len(widgets') : widgets'[i].id = widgets'[j].id => i = j
     /\ \A i \in 1..Len(widgets') :
          IF mapHas(widgets, widgets'[i].id)
          THEN Unpinned(widgets'[i]) = Unpinned(mapGet(widgets, widgets'[i].id))
          ELSE widgets'[i].id \notin closedIds]_vars

\* A widget created by a template click at a time when one of the two
\* widgets of the default workspace had already been removed (its default
\* position is that of a canvas with one widget).
C18_Witness ==
  /\ closedIds # {}
  /\ \E i \in 1..Len(widgets) :
       /\ widgets[i].id = "widget_3"
       /\ widgets[i].type = "multi-agent-chat"
       /\ widgets[i].position = Pos(80, 130)

\* C20: once an import of an exported file has settled (the removal timers
\* of the widgets it closed have fired), the canvas holds one widget per
\* exported widget, with the exported type, title, position, size,
\* configuration and pinned flag, and no widget from before the import.
C20_ImportRestoresExport ==
  (importRec.done /\ removalTimers = EmptyBag) =>
    LET exported == importRec.file.widgets
    IN  /\ Len(widgets) = Len(exported)
        /\ \A i \in 1..Len(widgets) :
             /\ widgets[i].type = exported[i].type
             /\ widgets[i].title = exported[i].title
             /\ widgets[i].position = exported[i].position
             /\ widgets[i].size = exported[i].size
             /\ widgets[i].config = exported[i].config
             /\ widgets[i].pinned = exported[i].pinned
        /\ allIds(widgets) \cap importRec.before = {}

\* The step is a switchPreset to a different preset.
PresetSwitched == currentPreset' # currentPreset /\ ~importRec'.done

\* C22: a switch to a different preset leaves every pinned widget on the
\* canvas and schedules no removal for it, schedules the removal of every
\* unpinned widget, and adds the default widgets of the new preset; a
\* scheduled removal is eventually carried out.
C22_PresetSwitchKeepsPinned ==
  /\ [][PresetSwitched =>
          LET defaults == defaultWorkspace(currentPreset')
              kept == Len(widgets)
          IN  /\ \A i \in 1..Len(widgets) :
                   /\ mapHas(widgets', widgets[i].id)
                   /\ widgets[i].pinned =>
                        (BagIn(widgets[i].id, removalTimers') => BagIn(widgets[i].id, removalTimers))
                   /\ ~widgets[i].pinned => BagIn(widgets[i].id, removalTimers')
              /\ Len(widgets') = kept + Len(defaults)
              /\ \A k \in 1..Len(defaults) :
                   /\ widgets'[kept + k].type = defaults[k].type
                   /\ widgets'[kept + k].position = defaults[k].position[1]
                   /\ ~BagIn(widgets'[kept + k].id, removalTimers')]_vars
  /\ \A widgetId \in WidgetIds :
       BagIn(widgetId, removalTimers) ~> ~mapHas(widgets, widgetId)

\* After a switch to the hr-manager preset the pinned widget of the first
\* workspace is still there, the unpinned one has been removed, and the two
\* widgets of the new preset are present.
C22_Witness ==
  /\ currentPreset = "hr-manager"
  /\ removalTimers = EmptyBag
  /\ closedIds = {"widget_2"}
  /\ Len(widgets) = 3
  /\ widgets[1].id = "widget_1" /\ widgets[1].pinned
  /\ widgets[2].type = "multi-agent-chat" /\ widgets[2].position = Pos(50, 100)
  /\ widgets[3].type = "document-processor"

(***************************************************************************)
(* Properties of NotificationManager (NotifySpec, NotifyFairSpec).         *)
(***************************************************************************)
\* C23: the number of notifications held never exceeds maxNotifications.
C23_AtMostMaxNotifications == Len(notifications) <= maxNotifications

\* The notification was created by confirm.
ByConfirm(notificationId) ==
  /\ mapHas(notifications, notificationId)
  /\ mapGet(notifications, notificationId).actions # <<>>

\* C24: no timer dismisses a notification created by confirm, and every other
\* notification that is never hovered eventually leaves the map.
C24_ConfirmStaysUntilAnswered ==
  /\ [][\A notificationId \in NotificationIds :
          (ByConfirm(notificationId) /\ mapHas(notifications', notificationId))
            => mapGet(notifications', notificationId).timer # "fired"]_vars
  /\ \A notificationId \in NotificationIds :
       (mapHas(notifications, notificationId) /\ ~ByConfirm(notificationId))
         ~> \/ ~mapHas(notifications, notificationId)
            \/ mapGet(notifications, notificationId).remainingTime # "undefined"

(***************************************************************************)
(* Properties of the chat widget and of the query listeners (ChatSpec).    *)
(***************************************************************************)
\* The step runs the listeners of the response of a processQuery run that a
\* chat submission awaits, and with them the rest of handleChatSubmission.
ChatRunEnds ==
  /\ last.delivered # <<>>
  /\ last'.delivered = <<>>
  /\ last.kind \in {"submit", "return"}
  /\ "context" \in DOMAIN last.queryData

\* C25: when the query of a chat submission is answered successfully the
\* transcript gains exactly one assistant message and no error message; an
\* error message is added only when the query failed.
C25_AnsweredChatGetsOneAssistantMessage ==
  [][ChatRunEnds =>
       LET added == SubSeq(chatMessages', Len(chatMessages) + 1, Len(chatMessages'))
           types == [i \in 1..Len(added) |-> added[i].type]
       IN  IF last.thrown = "" THEN types = <<"assistant">>
           ELSE \A i \in 1..Len(types) : types[i] \in {"assistant", "error"}]_vars

\* The processQuery calls made for the n-th 'widget:agent-query' event.
EventCalls(n) == {i \in 1..Len(calls) : calls[i].event = n}

\* C26: a 'widget:agent-query' event leads to one processQuery run, and, once
\* every run has ended, to one 'agent:response-ready' event for its widget,
\* which the chat widget shows as one assistant message.
C26_OneRunPerQueryEvent ==
  /\ \A n \in 1..MaxEvents : Cardinality(EventCalls(n)) <= 1
  /\ ( /\ ChatIdle
       /\ \A q \in QueryIds : runs[q].pc = "idle"
       /\ \A i \in 1..Len(calls) : calls[i].event > 0 )
     => LET answer(m) == m.type = "assistant"
        IN  Len(SelectSeq(chatMessages, answer))
              = Cardinality({n \in 1..MaxEvents : EventCalls(n) # {}})


(***************************************************************************)
(* Properties of the agents a response names (Spec).                       *)
(***************************************************************************)
\* The agents the response of the step's delivery names as contributors.
NamedAgents ==
  IF last'.delivered # <<>> /\ "agents" \in DOMAIN last'.delivered[1].response
  THEN Range(last'.delivered[1].response.agents)
  ELSE {}

\* C29: a delivered response names only agents that were online when its
\* query was submitted.  A submission calls only agents that are online; the
\* response of a run names only agents the run called; and a response
\* answered from the cache names only agents that are online at the lookup.
C29_NamedAgentsWereOnline ==
  [][ /\ last'.kind = "submit" => \A a \in last'.called : agentStatus[a] = "online"
      /\ last'.kind = "return" =>
           NamedAgents \subseteq
             (runs[last'.q].pending \cup {r.agentId : r \in runs[last'.q].results})
      /\ (last'.kind = "submit" /\ last'.route = "hit") =>
           \A a \in NamedAgents : agentStatus[a] = "online"
    ]_vars

(***************************************************************************)
(* Properties of closing a widget (CloseSpec).                             *)
(***************************************************************************)
\* C28: closing a widget emits exactly one 'widget:destroyed' event for it,
\* also when the close is requested again before or after the removal, and
\* no closeWidget call fails: no id has two events, a removed widget has its
\* event, and the latest closeWidget call has not thrown.
C28_RepeatedCloseIsHarmless ==
  /\ \A widgetId \in WidgetIds :
       /\ CopiesIn(widgetId, destroyedEvents) <= 1
       /\ widgetId \in closedIds => CopiesIn(widgetId, destroyedEvents) >= 1
  /\ ~closeError


(***************************************************************************)
(* Properties of the chat widget of AICanvasApp (AppSpec).                 *)
(***************************************************************************)
\* C30: every agent a chat widget sends a message to (every active chip, so
\* every agent the mock response lists) is enabled and not offline when the
\* message is sent.
C30_SendsToEnabledAgentsOnly ==
  sent.called =>
    \A i \in 1..Len(sent.agents) :
      /\ appAgents[sent.agents[i]].enabled
      /\ appAgents[sent.agents[i]].status # "offline"

=============================================================================
